---- MODULE Spec2Model ----
(***************************************************************************)
(* Ticket assignment and SLA lifecycle engine of the khalifa pharmacy      *)
(* support system (System/conversations).  The database rows of Agent,     *)
(* Ticket, TicketTransferLog, TicketStateLog, AgentBreakSession, Message,  *)
(* CustomerSatisfaction and AgentKPI are the state.                        *)
(*                                                                         *)
(* Spec:       every request handler is one action, handled from start to  *)
(*             end.  A handler works on model instances it loaded earlier, *)
(*             so an action distinguishes the row in the database from the *)
(*             (possibly stale) instance the handler saves back.           *)
(* SpecRace:   ticket creation by concurrent workers, one step per query   *)
(*             or save().                                                  *)
(* SpecSla:    one ticket, its messages, the delay sweeps and its close    *)
(*             while the clock runs.                                       *)
(* SpecBreak:  breaks started and ended while the clock runs.              *)
(* SpecNumber: the ticket numbers issued over the days.                    *)
(* SpecKpi:    the daily AgentKPI rows, recomputed by the handlers that    *)
(*             call calculate_agent_kpi, over the days.                    *)
(* SpecOrphan: requests without end, to see what becomes of a ticket that  *)
(*             was created while no agent was eligible.                    *)
(* SpecMenu:   the welcome message, the menu choices of the customer and   *)
(*             the automated replies on a ticket with messages and delays. *)
(* SpecReevaluation: the delay sweep by concurrent workers, one step per   *)
(*             query, save() or create().                                  *)
(* SpecConcurrent: the same with TicketViewSet.close by concurrent workers.*)
(***************************************************************************)
EXTENDS Integers, Sequences, FiniteSets, TLC

\* ------------------------------------------------------------------ bounds
\* tickets created in one behaviour
MaxTickets == 3
\* requests handled in one behaviour
MaxRequests == 5
\* ticks of the clock in one behaviour
MaxTime == 10
\* ticks of the clock in one behaviour of SpecBreak
MaxBreakTime == 4
\* calendar days in one behaviour of SpecNumber and SpecKpi
MaxDays == 2
\* requests handled in one behaviour of SpecKpi
MaxKpiRequests == 3
\* rows of the transfer log and of the break sessions in one behaviour of
\* SpecOrphan
MaxLogRows == 1
\* tickets created in one behaviour of SpecOrphan
MaxOrphanTickets == 2
\* requests handled in one behaviour of SpecMenu
MaxMenuRequests == 3
\* ticks of the clock in one behaviour of SpecMenu
MaxMenuTime == 4
\* requests started in one behaviour of SpecConcurrent
MaxRaceRequests == 5
\* ticks of the clock in one behaviour of SpecConcurrent
MaxRaceTime == 4

\* ------------------------------------------------------------- universe
Agents == {"a1", "a2"}
Customers == {"c1", "c2"}
Workers == {"w1", "w2"}
None == "none"

\* Agent.id, the primary key: the agents in the order they were created.
AgentId(a) == IF a = "a1" THEN 1 ELSE 2

\* The values of Agent.max_capacity the two agents were created with.
Capacities ==
    {[a \in Agents |-> IF a = "a1" THEN 1 ELSE 2], [a \in Agents |-> 2]}

VARIABLES
    max_capacity, \* Agent.max_capacity: a per-agent column, chosen at
                  \* create_with_user and not changed by any handler modelled here
    agents,       \* Agent rows: is_online, status, is_on_break, break_started_at,
                  \* total_break_minutes_today, current_active_tickets
    tickets,      \* Ticket rows in creation order (index = primary key)
    transferLog,  \* TicketTransferLog rows, append-only
    stateLog,     \* TicketStateLog rows, append-only
    breakSessions,   \* AgentBreakSession rows, append-only
    ticket_numbers,  \* the unique column Ticket.ticket_number (followed in
                     \* SpecNumber, where the rows have no other column)
    today,        \* timezone.now().date(), as a day number
    now,          \* timezone.now(), in ticks of 30 seconds
    delay_threshold_minutes,   \* SystemSettings.delay_threshold_minutes
    messages,     \* Message rows, append-only (followed in SpecKpi)
    ratings,      \* CustomerSatisfaction rows (followed in SpecKpi)
    kpi,          \* AgentKPI rows (followed in SpecKpi)
    last,         \* the request handled last (seq = how many so far) and its response
    workers       \* requests in flight (concurrent workers): position and loaded instance

vars == <<max_capacity, agents, tickets, transferLog, stateLog, breakSessions,
          ticket_numbers, today, now, delay_threshold_minutes,
          messages, ratings, kpi, last, workers>>

\* ------------------------------------------------------------- helpers
Max(x, y) == IF x >= y THEN x ELSE y

TicketIds == 1..Len(tickets)

\* Ticket.objects.filter(current_agent=a, status='open') on ticket rows tk
OpenTicketsOf(tk, a) ==
    {t \in 1..Len(tk) : tk[t].current_agent = a /\ tk[t].status = "open"}

NoRequest == [seq |-> 0, op |-> "init", ok |-> TRUE, t |-> 0, a |-> None, b |-> None,
              c |-> None, n |-> 0]

\* The record of the request being handled; requests are counted up to
\* MaxRequests.
Req(op, ok, t, a, b, c, n) ==
    [seq |-> IF last.seq < MaxRequests THEN last.seq + 1 ELSE last.seq,
     op |-> op, ok |-> ok, t |-> t, a |-> a, b |-> b, c |-> c, n |-> n]

\* A DateTimeField (or a field that holds seconds) that is null.
NoTime == 0 - 1

\* timedelta.total_seconds() of a difference of d ticks.
total_seconds(d) == 30 * d

\* The Ticket row a creation writes: the given columns and the defaults of
\* the model (created_at = auto_now_add).
NewTicket(agent, c) ==
    [status |-> "open", assigned_agent |-> agent, current_agent |-> agent,
     customer |-> c, created_at |-> now, closed_at |-> NoTime,
     first_response_at |-> NoTime, response_time_seconds |-> NoTime,
     last_customer_message_at |-> NoTime, last_agent_message_at |-> NoTime,
     is_delayed |-> FALSE, delay_started_at |-> NoTime, delay_count |-> 0,
     total_delay_minutes |-> 0,
     category |-> "general", priority |-> "medium",
     category_selected_at |-> NoTime, last_message_at |-> NoTime]

StateRow(t, old_state, new_state) ==
    [ticket |-> t, old_state |-> old_state, new_state |-> new_state]

\* A worker with no request in flight.
Idle == [pc |-> "idle", agent_id |-> None, agent |-> None, c |-> None]

\* --------------------------------------------------- auto-assignment
\* AvailableFilter as it was before the break check was added.
AvailableFilter_IgnoresBreak(ag, a) ==
    /\ ag[a].is_online
    /\ ag[a].status = "available"
    /\ ag[a].current_active_tickets < max_capacity[a]

\* The filter of get_available_agent.
AvailableFilter(ag, a) ==
    /\ ag[a].is_online
    /\ ag[a].status = "available"
    /\ ~ag[a].is_on_break
    /\ ag[a].current_active_tickets < max_capacity[a]

\* order_by('current_active_tickets'): every ordering of the filtered rows
\* that is ascending in the count; rows with equal counts come in an order
\* the database chooses.
OrderByActive(ag, S) ==
    {s \in [1..Cardinality(S) -> S] :
        /\ \A i, j \in 1..Cardinality(S) : i # j => s[i] # s[j]
        /\ \A i, j \in 1..Cardinality(S) :
              i < j => ag[s[i]].current_active_tickets
                         <= ag[s[j]].current_active_tickets}

\* get_available_agent(): the possible return values on agent rows ag.
get_available_agent(ag) ==
    LET available_agents == {a \in Agents : AvailableFilter(ag, a)}
    IN  IF available_agents # {}
        THEN {s[1] : s \in OrderByActive(ag, available_agents)}
        ELSE {None}

\* ------------------------------------------------------------- Init
Init ==
    /\ max_capacity \in Capacities
    /\ agents = [a \in Agents |->
                   [is_online |-> FALSE, status |-> "offline",
                    is_on_break |-> FALSE, break_started_at |-> NoTime,
                    total_break_minutes_today |-> 0,
                    current_active_tickets |-> 0]]
    /\ tickets = <<>>
    /\ transferLog = <<>>
    /\ stateLog = <<>>
    /\ breakSessions = <<>>
    /\ ticket_numbers = {}
    /\ today = 1
    /\ now = 0
    /\ delay_threshold_minutes = 1
    /\ messages = <<>>
    /\ ratings = <<>>
    /\ kpi = <<>>
    /\ last = NoRequest
    /\ workers = [w \in Workers |-> Idle]

\* ------------------------------------------------------------- login
\* LoginView.post, agent branch.
LoginView_post(a) ==
    /\ agents' = [agents EXCEPT ![a].is_online = TRUE,
                                ![a].status = "available"]
    /\ last' = Req("login", TRUE, 0, a, None, None, 0)
    /\ UNCHANGED <<tickets, transferLog, stateLog, breakSessions>>

\* views_frontend.login_view, agent branch (save(update_fields=[is_online, status])).
login_view(a) ==
    /\ agents' = [agents EXCEPT ![a].is_online = TRUE,
                                ![a].status = "available"]
    /\ last' = Req("login_view", TRUE, 0, a, None, None, 0)
    /\ UNCHANGED <<tickets, transferLog, stateLog, breakSessions>>

\* ------------------------------------------------------------- loops
\* A queryset without order_by is iterated in an order the database
\* chooses: every enumeration of the selected rows.
Orders(S) ==
    {s \in [1..Cardinality(S) -> S] :
        \A i, j \in 1..Cardinality(S) : i # j => s[i] # s[j]}

LogRow(t, from, to, reason) ==
    [ticket |-> t, from_agent |-> from, to_agent |-> to, reason |-> reason]

\* One pass of the loop body of LogoutView.post for ticket t with the agent
\* get_available_agent() returned; st holds the rows (ag, tk, log).
LogoutBody(st, t, new_agent) ==
    IF new_agent = None THEN st
    ELSE LET old_agent == st.tk[t].current_agent IN
         [ag  |-> [st.ag EXCEPT ![new_agent].current_active_tickets = @ + 1],
          tk  |-> [st.tk EXCEPT ![t].current_agent = new_agent],
          log |-> Append(st.log, LogRow(t, old_agent, new_agent, "logout")),
          n   |-> st.n + 1]

RECURSIVE LogoutLoop(_, _, _)
LogoutLoop(order, i, st) ==
    IF i > Len(order) THEN {st}
    ELSE UNION {LogoutLoop(order, i + 1, LogoutBody(st, order[i], new_agent)) :
                    new_agent \in get_available_agent(st.ag)}

\* LogoutView.post, agent branch.  The instance `agent` is changed in
\* memory first and saved only after the loop, so the queries inside the
\* loop still see the row as it was.
LogoutView_post(a) ==
    LET agent == agents[a]
        active_tickets == OpenTicketsOf(tickets, a)
    IN  \E order \in Orders(active_tickets) :
        \E out \in LogoutLoop(order, 1,
                      [ag |-> agents, tk |-> tickets, log |-> transferLog, n |-> 0]) :
          /\ agents' = [out.ag EXCEPT ![a] =
                          [agent EXCEPT !.is_online = FALSE,
                                        !.status = "offline",
                                        !.current_active_tickets = 0]]
          /\ tickets' = out.tk
          /\ transferLog' = out.log
          /\ last' = Req("logout", TRUE, 0, a, None, None, out.n)
          /\ UNCHANGED <<stateLog, breakSessions>>

\* views_frontend.logout_view, agent branch.
logout_view(a) ==
    /\ agents' = [agents EXCEPT ![a].is_online = FALSE,
                                ![a].status = "offline"]
    /\ last' = Req("logout_view", TRUE, 0, a, None, None, 0)
    /\ UNCHANGED <<tickets, transferLog, stateLog, breakSessions>>

\* AgentViewSet.set_online_status
set_online_status(a, is_online) ==
    /\ agents' = [agents EXCEPT ![a].is_online = is_online,
                                ![a].status = IF is_online THEN "available"
                                              ELSE "offline"]
    /\ last' = Req("set_online", is_online, 0, a, None, None, 0)
    /\ UNCHANGED <<tickets, transferLog, stateLog, breakSessions>>

\* AgentViewSet.force_logout
force_logout(a) ==
    /\ agents' = [agents EXCEPT ![a].is_online = FALSE,
                                ![a].status = "offline",
                                ![a].is_on_break = FALSE,
                                ![a].break_started_at =
                                    IF agents[a].is_on_break THEN NoTime ELSE @]
    /\ last' = Req("force_logout", TRUE, 0, a, None, None, 0)
    /\ UNCHANGED <<tickets, transferLog, stateLog, breakSessions>>

\* AgentViewSet.toggle_status with is_active = false.  (With is_active =
\* true the handler changes only the user row.)
toggle_status(a) ==
    /\ agents' = [agents EXCEPT ![a].is_online = FALSE,
                                ![a].status = "offline"]
    /\ last' = Req("toggle_status", TRUE, 0, a, None, None, 0)
    /\ UNCHANGED <<tickets, transferLog, stateLog, breakSessions>>

\* ------------------------------------------------------------- breaks
\* One pass of the loop body of take_break.
TakeBreakBody(st, agent_id, t, new_agent) ==
    IF new_agent = None THEN st
    ELSE LET tk2 == [st.tk EXCEPT ![t].current_agent = new_agent]
             cnt == Cardinality(OpenTicketsOf(tk2, new_agent))
         IN  [ag  |-> [st.ag EXCEPT
                        ![new_agent].current_active_tickets = cnt,
                        ![new_agent].status =
                            IF cnt >= max_capacity[new_agent] THEN "busy" ELSE @],
              tk  |-> tk2,
              log |-> Append(st.log, LogRow(t, agent_id, new_agent, "break")),
              n   |-> st.n + 1]

RECURSIVE TakeBreakLoop(_, _, _, _)
TakeBreakLoop(agent_id, order, i, st) ==
    IF i > Len(order) THEN {st}
    ELSE UNION {TakeBreakLoop(agent_id, order, i + 1,
                              TakeBreakBody(st, agent_id, order[i], new_agent)) :
                    new_agent \in get_available_agent(st.ag)}

\* take_break without the test for an agent that is already on break.
take_break_NoBreakCheck(a) ==
    LET agent == agents[a] IN
    \E order \in Orders(OpenTicketsOf(tickets, a)) :
    \E out \in TakeBreakLoop(a, order, 1,
                 [ag |-> agents, tk |-> tickets, log |-> transferLog, n |-> 0]) :
       /\ agents' = [out.ag EXCEPT ![a] =
                      [agent EXCEPT !.is_on_break = TRUE,
                                    !.break_started_at = now,
                                    !.status = "on_break",
                                    !.current_active_tickets = 0]]
       /\ tickets' = out.tk
       /\ transferLog' = out.log
       /\ last' = Req("take_break", TRUE, 0, a, None, None, out.n)
       /\ UNCHANGED <<stateLog, breakSessions>>

\* AgentViewSet.take_break
take_break(a) ==
    LET agent == agents[a] IN
    IF agent.is_on_break
    THEN /\ last' = Req("take_break", FALSE, 0, a, None, None, 0)
         /\ UNCHANGED <<agents, tickets, transferLog, stateLog, breakSessions>>
    ELSE \E order \in Orders(OpenTicketsOf(tickets, a)) :
         \E out \in TakeBreakLoop(a, order, 1,
                      [ag |-> agents, tk |-> tickets, log |-> transferLog, n |-> 0]) :
            /\ agents' = [out.ag EXCEPT ![a] =
                           [agent EXCEPT !.is_on_break = TRUE,
                                         !.break_started_at = now,
                                         !.status = "on_break",
                                         !.current_active_tickets = 0]]
           /\ tickets' = out.tk
           /\ transferLog' = out.log
           /\ last' = Req("take_break", TRUE, 0, a, None, None, out.n)
           /\ UNCHANGED <<stateLog, breakSessions>>

\* An AgentBreakSession row.
BreakRow(a, break_start_time, break_end_time, break_duration_seconds) ==
    [agent |-> a, break_start_time |-> break_start_time,
     break_end_time |-> break_end_time,
     break_duration_seconds |-> break_duration_seconds]

\* end_break with the session row created without looking at
\* break_started_at: the duration stays at its initial 0.
end_break_ZeroDuration(a) ==
    LET agent == agents[a] IN
    IF ~agent.is_on_break
    THEN /\ last' = Req("end_break", FALSE, 0, a, None, None, 0)
         /\ UNCHANGED <<agents, tickets, transferLog, stateLog, breakSessions>>
    ELSE /\ breakSessions' =
               Append(breakSessions, BreakRow(a, agent.break_started_at, now, 0))
         /\ agents' = [agents EXCEPT ![a] =
                [agent EXCEPT !.is_on_break = FALSE,
                              !.break_started_at = NoTime,
                              !.total_break_minutes_today =
                                  @ + total_seconds(now - agent.break_started_at)
                                         \div 60,
                              !.status = IF agent.current_active_tickets
                                              >= max_capacity[a]
                                         THEN "busy" ELSE "available"]]
         /\ last' = Req("end_break", TRUE, 0, a, None, None, 0)
         /\ UNCHANGED <<tickets, transferLog, stateLog>>

\* AgentViewSet.end_break
end_break(a) ==
    LET agent == agents[a] IN
    IF ~agent.is_on_break
    THEN /\ last' = Req("end_break", FALSE, 0, a, None, None, 0)
         /\ UNCHANGED <<agents, tickets, transferLog, stateLog, breakSessions>>
    ELSE LET break_seconds ==
                 IF agent.break_started_at # NoTime
                 THEN total_seconds(now - agent.break_started_at) ELSE 0
         IN  /\ breakSessions' =
                   IF agent.break_started_at # NoTime
                   THEN Append(breakSessions,
                               BreakRow(a, agent.break_started_at, now,
                                        break_seconds))
                   ELSE breakSessions
             /\ agents' = [agents EXCEPT ![a] =
                    [agent EXCEPT !.is_on_break = FALSE,
                                  !.break_started_at = NoTime,
                                  !.total_break_minutes_today =
                                      @ + break_seconds \div 60,
                                  !.status = IF agent.current_active_tickets
                                                  >= max_capacity[a]
                                             THEN "busy" ELSE "available"]]
             /\ last' = Req("end_break", TRUE, 0, a, None, None, break_seconds)
             /\ UNCHANGED <<tickets, transferLog, stateLog>>

\* ------------------------------------------------------ ticket creation
\* perform_create with the busy test written > instead of >=.
perform_create_LateBusy(c) ==
    /\ Len(tickets) < MaxTickets
    /\ \E agent \in get_available_agent(agents) :
         LET id == Len(tickets) + 1 IN
         IF agent = None
         THEN /\ tickets' = Append(tickets,
                    NewTicket(None, c))
              /\ agents' = agents
              /\ last' = Req("create", TRUE, id, None, None, c, 0)
         ELSE LET cnt == agents[agent].current_active_tickets + 1 IN
              /\ tickets' = Append(tickets,
                    NewTicket(agent, c))
              /\ agents' = [agents EXCEPT
                    ![agent].current_active_tickets = cnt,
                    ![agent].status = IF cnt > max_capacity[agent]
                                      THEN "busy" ELSE @]
              /\ last' = Req("create", TRUE, id, agent, None, c, 0)
    /\ UNCHANGED <<transferLog, stateLog, breakSessions>>

\* TicketViewSet.perform_create
perform_create(c) ==
    /\ Len(tickets) < MaxTickets
    /\ \E agent \in get_available_agent(agents) :
         LET id == Len(tickets) + 1 IN
         IF agent = None
         THEN /\ tickets' = Append(tickets,
                    NewTicket(None, c))
              /\ agents' = agents
              /\ last' = Req("create", TRUE, id, None, None, c, 0)
         ELSE LET cnt == agents[agent].current_active_tickets + 1 IN
              /\ tickets' = Append(tickets,
                    NewTicket(agent, c))
              /\ agents' = [agents EXCEPT
                    ![agent].current_active_tickets = cnt,
                    ![agent].status = IF cnt >= max_capacity[agent]
                                      THEN "busy" ELSE @]
              /\ last' = Req("create", TRUE, id, agent, None, c, 0)
    /\ UNCHANGED <<transferLog, stateLog, breakSessions>>

\* views_frontend.admin_monitor_agent_conversation: opens a ticket for the
\* customer when the customer has no open one; no agent is looked up.  (The
\* page passes priority='normal' where the API leaves the default; no
\* handler reads the priority, and the rows are not told apart by it.)
admin_monitor_agent_conversation(c) ==
    LET open_of_c == {t \in TicketIds : tickets[t].customer = c
                                        /\ tickets[t].status = "open"}
    IN  IF open_of_c = {}
        THEN /\ Len(tickets) < MaxTickets
             /\ tickets' = Append(tickets,
                    NewTicket(None, c))
             /\ last' = Req("admin_conversation", TRUE, Len(tickets) + 1,
                            None, None, c, 0)
             /\ UNCHANGED <<agents, transferLog, stateLog, breakSessions>>
        ELSE /\ last' = Req("admin_conversation", FALSE, 0, None, None, c, 0)
             /\ UNCHANGED <<agents, tickets, transferLog, stateLog, breakSessions>>

\* ------------------------------------------------------------- close
\* ReleaseSlot without the max(0, ...) floor.
ReleaseSlot_NoFloor(agent, a) ==
    LET cnt == agent.current_active_tickets - 1 IN
    [agent EXCEPT !.current_active_tickets = cnt,
                  !.status = IF cnt < max_capacity[a] THEN "available" ELSE @]

\* The slot release written three times in the source (close,
\* close_all_open, transfer): decrement floored at 0, status available when
\* below capacity.
ReleaseSlot(agent, a) ==
    LET cnt == Max(0, agent.current_active_tickets - 1) IN
    [agent EXCEPT !.current_active_tickets = cnt,
                  !.status = IF cnt < max_capacity[a] THEN "available" ELSE @]

\* close without the test for a ticket that is already closed.
close_NoClosedCheck(t) ==
    LET ticket == tickets[t] IN
    /\ tickets' = [tickets EXCEPT ![t].status = "closed",
                                  ![t].closed_at = now]
    /\ agents' = IF ticket.current_agent # None
                 THEN [agents EXCEPT ![ticket.current_agent] =
                         ReleaseSlot(agents[ticket.current_agent],
                                     ticket.current_agent)]
                 ELSE agents
    /\ stateLog' = Append(stateLog, StateRow(t, ticket.status, "closed"))
    /\ last' = Req("close", TRUE, t, ticket.current_agent, None, None, 0)
    /\ UNCHANGED <<transferLog, breakSessions>>

\* close with the state-log row lost (the create inside try/except fails).
close_NoStateLog(t) ==
    LET ticket == tickets[t] IN
    IF ticket.status = "closed"
    THEN /\ last' = Req("close", FALSE, t, None, None, None, 0)
         /\ UNCHANGED <<agents, tickets, transferLog, stateLog, breakSessions>>
    ELSE /\ tickets' = [tickets EXCEPT ![t].status = "closed",
                                       ![t].closed_at = now]
         /\ agents' = IF ticket.current_agent # None
                      THEN [agents EXCEPT ![ticket.current_agent] =
                              ReleaseSlot(agents[ticket.current_agent],
                                          ticket.current_agent)]
                      ELSE agents
         /\ last' = Req("close", TRUE, t, ticket.current_agent, None, None, 0)
         /\ UNCHANGED <<transferLog, stateLog, breakSessions>>

\* TicketViewSet.close
close(t) ==
    LET ticket == tickets[t] IN
    IF ticket.status = "closed"
    THEN /\ last' = Req("close", FALSE, t, None, None, None, 0)
         /\ UNCHANGED <<agents, tickets, transferLog, stateLog, breakSessions>>
    ELSE /\ tickets' = [tickets EXCEPT ![t].status = "closed",
                                       ![t].closed_at = now]
         /\ agents' = IF ticket.current_agent # None
                      THEN [agents EXCEPT ![ticket.current_agent] =
                              ReleaseSlot(agents[ticket.current_agent],
                                          ticket.current_agent)]
                      ELSE agents
         /\ stateLog' = Append(stateLog, StateRow(t, ticket.status, "closed"))
         /\ last' = Req("close", TRUE, t, ticket.current_agent, None, None, 0)
         /\ UNCHANGED <<transferLog, breakSessions>>

\* The loop of close_all_open over the tickets in `order`; ticket.current_agent
\* is fetched from the database in each pass.
RECURSIVE CloseAllLoop(_, _, _)
CloseAllLoop(order, i, st) ==
    IF i > Len(order) THEN st
    ELSE LET t == order[i]
             a == st.tk[t].current_agent
         IN  CloseAllLoop(order, i + 1,
                [st EXCEPT !.tk = [st.tk EXCEPT ![t].status = "closed",
                                                ![t].closed_at = now],
                           !.slog = Append(st.slog,
                                       StateRow(t, st.tk[t].status, "closed")),
                           !.ag = IF a # None
                                  THEN [st.ag EXCEPT ![a] = ReleaseSlot(st.ag[a], a)]
                                  ELSE st.ag,
                           !.n = st.n + 1])

\* TicketViewSet.close_all_open
close_all_open ==
    LET open_tickets == {t \in TicketIds : tickets[t].status = "open"} IN
    IF open_tickets = {}
    THEN /\ last' = Req("close_all_open", FALSE, 0, None, None, None, 0)
         /\ UNCHANGED <<agents, tickets, transferLog, stateLog, breakSessions>>
    ELSE \E order \in Orders(open_tickets) :
         LET out == CloseAllLoop(order, 1,
                      [ag |-> agents, tk |-> tickets, slog |-> stateLog, n |-> 0])
         IN  /\ agents' = out.ag
             /\ tickets' = out.tk
             /\ stateLog' = out.slog
             /\ last' = Req("close_all_open", TRUE, 0, None, None, None, out.n)
             /\ UNCHANGED <<transferLog, breakSessions>>

\* ------------------------------------------------------------- transfer
\* TicketViewSet.transfer.  old_agent and new_agent are two instances loaded
\* before the first write; each is changed and saved whole, new_agent last.
transfer(t, new_agent_id) ==
    LET ticket == tickets[t]
        new_agent == agents[new_agent_id]
    IN  IF new_agent.current_active_tickets >= max_capacity[new_agent_id]
        THEN /\ last' = Req("transfer", FALSE, t, new_agent_id,
                            ticket.current_agent, None, 0)
             /\ UNCHANGED <<agents, tickets, transferLog, stateLog, breakSessions>>
        ELSE LET old_agent_id == ticket.current_agent
                 ag1 == IF old_agent_id # None
                        THEN [agents EXCEPT ![old_agent_id] =
                                ReleaseSlot(agents[old_agent_id], old_agent_id)]
                        ELSE agents
                 cnt == new_agent.current_active_tickets + 1
             IN  /\ tickets' = [tickets EXCEPT ![t].current_agent = new_agent_id]
                 /\ agents' = [ag1 EXCEPT ![new_agent_id] =
                        [new_agent EXCEPT
                           !.current_active_tickets = cnt,
                           !.status = IF cnt >= max_capacity[new_agent_id]
                                      THEN "busy" ELSE @]]
                 /\ transferLog' = Append(transferLog,
                        LogRow(t, old_agent_id, new_agent_id, "manual"))
                 /\ last' = Req("transfer", TRUE, t, new_agent_id,
                                old_agent_id, None, 1)
                 /\ UNCHANGED <<stateLog, breakSessions>>

\* The loop of transfer_ticket_api over the tickets in `order`.
RECURSIVE TransferApiLoop(_, _, _, _, _)
TransferApiLoop(from_agent_id, to_agent_id, order, i, st) ==
    IF i > Len(order) THEN st
    ELSE TransferApiLoop(from_agent_id, to_agent_id, order, i + 1,
            [st EXCEPT !.tk = [st.tk EXCEPT ![order[i]].current_agent = to_agent_id],
                       !.log = Append(st.log, LogRow(order[i], from_agent_id,
                                                     to_agent_id, "agent")),
                       !.n = st.n + 1])

\* transfer_ticket_api: the calling agent hands all open tickets of one
\* customer to to_agent.  from_agent and to_agent are two instances loaded
\* before the loop; from_agent is saved first, to_agent last.
transfer_ticket_api(from_agent_id, c, to_agent_id) ==
    LET from_agent == agents[from_agent_id]
        to_agent == agents[to_agent_id]
        open_tickets == {t \in OpenTicketsOf(tickets, from_agent_id) :
                            tickets[t].customer = c}
    IN  IF open_tickets = {}
        THEN /\ last' = Req("transfer_api", FALSE, 0, to_agent_id,
                            from_agent_id, c, 0)
             /\ UNCHANGED <<agents, tickets, transferLog, stateLog, breakSessions>>
        ELSE \E order \in Orders(open_tickets) :
             LET out == TransferApiLoop(from_agent_id, to_agent_id, order, 1,
                          [ag |-> agents, tk |-> tickets, log |-> transferLog, n |-> 0])
                 from_cnt == Cardinality(OpenTicketsOf(out.tk, from_agent_id))
                 to_cnt == Cardinality(OpenTicketsOf(out.tk, to_agent_id))
                 ag1 == [agents EXCEPT ![from_agent_id] =
                           [from_agent EXCEPT
                              !.current_active_tickets = from_cnt,
                              !.status = IF from_cnt < max_capacity[from_agent_id]
                                         THEN "available" ELSE @]]
             IN  /\ agents' = [ag1 EXCEPT ![to_agent_id] =
                        [to_agent EXCEPT
                           !.current_active_tickets = to_cnt,
                           !.status = IF to_cnt >= max_capacity[to_agent_id]
                                      THEN "busy" ELSE @]]
                 /\ tickets' = out.tk
                 /\ transferLog' = out.log
                 /\ last' = Req("transfer_api", TRUE, 0, to_agent_id,
                                from_agent_id, c, out.n)
                 /\ UNCHANGED <<stateLog, breakSessions>>

\* A request handled from start to end with none other in flight, at one
\* instant and under unchanged settings; the model stops after MaxRequests
\* requests.
Budget ==
    /\ last.seq < MaxRequests
    /\ UNCHANGED <<max_capacity, workers, now, delay_threshold_minutes,
                   ticket_numbers, today, messages, ratings, kpi>>

Next ==
    \/ \E a \in Agents : Budget /\ LoginView_post(a)
    \/ \E a \in Agents : Budget /\ login_view(a)
    \/ \E a \in Agents : Budget /\ LogoutView_post(a)
    \/ \E a \in Agents : Budget /\ logout_view(a)
    \/ \E a \in Agents : \E b \in BOOLEAN : Budget /\ set_online_status(a, b)
    \/ \E a \in Agents : Budget /\ force_logout(a)
    \/ \E a \in Agents : Budget /\ toggle_status(a)
    \/ \E a \in Agents : Budget /\ take_break(a)
    \/ \E a \in Agents : Budget /\ end_break(a)
    \/ \E c \in Customers : Budget /\ perform_create(c)
    \/ \E c \in Customers : Budget /\ admin_monitor_agent_conversation(c)
    \/ \E t \in TicketIds : Budget /\ close(t)
    \/ Budget /\ close_all_open
    \/ \E t \in TicketIds : \E a \in Agents : Budget /\ transfer(t, a)
    \/ \E a \in Agents : \E c \in Customers : \E b \in Agents :
          Budget /\ transfer_ticket_api(a, c, b)

Spec == Init /\ [][Next]_vars

\* ------------------------------------------- concurrent ticket creation
\* perform_create handled by concurrent workers: each query and each save()
\* is one step, and the steps of two requests interleave.

\* agent = get_available_agent(): the worker loads an Agent instance.
create_select(w, c) ==
    /\ workers[w].pc = "idle"
    /\ Len(tickets) + Cardinality({v \in Workers : workers[v].pc = "selected"})
          < MaxTickets
    /\ \E agent \in get_available_agent(agents) :
          workers' = [workers EXCEPT ![w] =
                        [pc |-> "selected", agent_id |-> agent,
                         agent |-> IF agent = None THEN None ELSE agents[agent],
                         c |-> c]]
    /\ UNCHANGED <<agents, tickets, transferLog, stateLog, breakSessions, now,
                 delay_threshold_minutes, max_capacity,
                 ticket_numbers, today, messages, ratings, kpi, last>>

\* serializer.save(...): the ticket row is written.
create_save_ticket(w) ==
    /\ workers[w].pc = "selected"
    /\ tickets' = Append(tickets,
            NewTicket(workers[w].agent_id, workers[w].c))
    /\ workers' = [workers EXCEPT ![w] =
                     IF workers[w].agent_id = None THEN Idle
                     ELSE [@ EXCEPT !.pc = "ticket_saved"]]
    /\ UNCHANGED <<agents, transferLog, stateLog, breakSessions, now,
                 delay_threshold_minutes, max_capacity,
                 ticket_numbers, today, messages, ratings, kpi, last>>

\* agent.current_active_tickets += 1 ... agent.save(): the loaded instance
\* is changed and written back whole.
create_save_agent(w) ==
    /\ workers[w].pc = "ticket_saved"
    /\ LET a == workers[w].agent_id
           cnt == workers[w].agent.current_active_tickets + 1
       IN  agents' = [agents EXCEPT ![a] =
                [workers[w].agent EXCEPT
                    !.current_active_tickets = cnt,
                    !.status = IF cnt >= max_capacity[a] THEN "busy" ELSE @]]
    /\ workers' = [workers EXCEPT ![w] = Idle]
    /\ UNCHANGED <<tickets, transferLog, stateLog, breakSessions, now,
                 delay_threshold_minutes, max_capacity,
                 ticket_numbers, today, messages, ratings, kpi, last>>

\* Both agents have logged in; no ticket exists yet.
InitRace ==
    /\ max_capacity \in Capacities
    /\ agents = [a \in Agents |->
                   [is_online |-> TRUE, status |-> "available",
                    is_on_break |-> FALSE, break_started_at |-> NoTime,
                    total_break_minutes_today |-> 0,
                    current_active_tickets |-> 0]]
    /\ tickets = <<>>
    /\ transferLog = <<>>
    /\ stateLog = <<>>
    /\ breakSessions = <<>>
    /\ ticket_numbers = {}
    /\ today = 1
    /\ now = 0
    /\ delay_threshold_minutes = 1
    /\ messages = <<>>
    /\ ratings = <<>>
    /\ kpi = <<>>
    /\ last = NoRequest
    /\ workers = [w \in Workers |-> Idle]

NextRace ==
    \/ \E w \in Workers : \E c \in Customers : create_select(w, c)
    \/ \E w \in Workers : create_save_ticket(w)
    \/ \E w \in Workers : create_save_agent(w)

SpecRace == InitRace /\ [][NextRace]_vars

\* ------------------------------------------------------ delay detection
\* check_ticket_delay with the threshold test written >= instead of >.
check_ticket_delay_AtThreshold(ticket) ==
    IF ticket.status # "open" THEN FALSE
    ELSE IF ticket.last_customer_message_at = NoTime THEN FALSE
    ELSE IF /\ ticket.last_agent_message_at # NoTime
            /\ ticket.last_agent_message_at > ticket.last_customer_message_at
         THEN FALSE
    ELSE total_seconds(now - ticket.last_customer_message_at)
            >= delay_threshold_minutes * 60

\* check_ticket_delay(ticket) at the instant `now`.
check_ticket_delay(ticket) ==
    IF ticket.status # "open" THEN FALSE
    ELSE IF ticket.last_customer_message_at = NoTime THEN FALSE
    ELSE IF /\ ticket.last_agent_message_at # NoTime
            /\ ticket.last_agent_message_at > ticket.last_customer_message_at
         THEN FALSE
    ELSE total_seconds(now - ticket.last_customer_message_at)
            > delay_threshold_minutes * 60

\* update_ticket_delay_status with 'is_delayed' missing from update_fields
\* of the first branch, so the flag is not written.
update_ticket_delay_status_FlagNotSaved(st, t, ticket) ==
    LET is_delayed == check_ticket_delay(ticket) IN
    IF is_delayed /\ ~ticket.is_delayed
    THEN [tk   |-> [st.tk EXCEPT ![t].delay_started_at = now,
                                 ![t].delay_count = ticket.delay_count + 1],
          slog |-> Append(st.slog, StateRow(t, ticket.status, "delayed"))]
    ELSE IF ~is_delayed /\ ticket.is_delayed
    THEN LET minutes == IF ticket.delay_started_at # NoTime
                        THEN total_seconds(now - ticket.delay_started_at) \div 60
                        ELSE 0
         IN  [tk   |-> [st.tk EXCEPT ![t] =
                          [ticket EXCEPT
                             !.total_delay_minutes = @ + minutes,
                             !.is_delayed = FALSE,
                             !.delay_started_at = NoTime]],
              slog |-> Append(st.slog, StateRow(t, "delayed", ticket.status))]
    ELSE st

\* update_ticket_delay_status with the line `ticket.delay_count += 1`
\* missing from the first branch.
update_ticket_delay_status_NoCount(st, t, ticket) ==
    LET is_delayed == check_ticket_delay(ticket) IN
    IF is_delayed /\ ~ticket.is_delayed
    THEN [tk   |-> [st.tk EXCEPT ![t].is_delayed = TRUE,
                                 ![t].delay_started_at = now,
                                 ![t].delay_count = ticket.delay_count],
          slog |-> Append(st.slog, StateRow(t, ticket.status, "delayed"))]
    ELSE IF ~is_delayed /\ ticket.is_delayed
    THEN LET minutes == IF ticket.delay_started_at # NoTime
                        THEN total_seconds(now - ticket.delay_started_at) \div 60
                        ELSE 0
         IN  [tk   |-> [st.tk EXCEPT ![t] =
                          [ticket EXCEPT
                             !.total_delay_minutes = @ + minutes,
                             !.is_delayed = FALSE,
                             !.delay_started_at = NoTime]],
              slog |-> Append(st.slog, StateRow(t, "delayed", ticket.status))]
    ELSE st

\* update_ticket_delay_status with the delay of the second branch counted
\* in seconds instead of minutes.
update_ticket_delay_status_CountsSeconds(st, t, ticket) ==
    LET is_delayed == check_ticket_delay(ticket) IN
    IF is_delayed /\ ~ticket.is_delayed
    THEN [tk   |-> [st.tk EXCEPT ![t].is_delayed = TRUE,
                                 ![t].delay_started_at = now,
                                 ![t].delay_count = ticket.delay_count + 1],
          slog |-> Append(st.slog, StateRow(t, ticket.status, "delayed"))]
    ELSE IF ~is_delayed /\ ticket.is_delayed
    THEN LET seconds == IF ticket.delay_started_at # NoTime
                        THEN total_seconds(now - ticket.delay_started_at)
                        ELSE 0
         IN  [tk   |-> [st.tk EXCEPT ![t] =
                          [ticket EXCEPT
                             !.total_delay_minutes = @ + seconds,
                             !.is_delayed = FALSE,
                             !.delay_started_at = NoTime]],
              slog |-> Append(st.slog, StateRow(t, "delayed", ticket.status))]
    ELSE st

\* update_ticket_delay_status(ticket) on the rows st = (tk, slog); the
\* instance `ticket` is the row of ticket t as the caller loaded it.
update_ticket_delay_status(st, t, ticket) ==
    LET is_delayed == check_ticket_delay(ticket) IN
    IF is_delayed /\ ~ticket.is_delayed
    THEN [tk   |-> [st.tk EXCEPT ![t].is_delayed = TRUE,
                                 ![t].delay_started_at = now,
                                 ![t].delay_count = ticket.delay_count + 1],
          slog |-> Append(st.slog, StateRow(t, ticket.status, "delayed"))]
    ELSE IF ~is_delayed /\ ticket.is_delayed
    THEN LET minutes == IF ticket.delay_started_at # NoTime
                        THEN total_seconds(now - ticket.delay_started_at) \div 60
                        ELSE 0
         IN  [tk   |-> [st.tk EXCEPT ![t] =
                          [ticket EXCEPT
                             !.total_delay_minutes = @ + minutes,
                             !.is_delayed = FALSE,
                             !.delay_started_at = NoTime]],
              slog |-> Append(st.slog, StateRow(t, "delayed", ticket.status))]
    ELSE st

\* for ticket in Ticket.objects.filter(status='open'):
\*     update_ticket_delay_status(ticket)
RECURSIVE DelaySweepLoop(_, _, _, _)
DelaySweepLoop(loaded, order, i, st) ==
    IF i > Len(order) THEN st
    ELSE DelaySweepLoop(loaded, order, i + 1,
            update_ticket_delay_status(st, order[i], loaded[order[i]]))

\* conversations_list_api: the sweep over all open tickets that starts the
\* handler (all_conversations_api, admin_dashboard and admin_tickets start
\* with the same loop and write nothing else).
conversations_list_api ==
    LET all_open_tickets == {t \in TicketIds : tickets[t].status = "open"} IN
    \E order \in Orders(all_open_tickets) :
       LET out == DelaySweepLoop(tickets, order, 1,
                                 [tk |-> tickets, slog |-> stateLog])
       IN  /\ tickets' = out.tk
           /\ stateLog' = out.slog
           /\ last' = Req("delay_sweep", TRUE, 0, None, None, None,
                          Len(out.slog) - Len(stateLog))
           /\ UNCHANGED <<agents, transferLog, breakSessions>>

\* A message of the customer arrives on an open ticket: the time is
\* recorded and the delay is evaluated again.
customer_message(t) ==
    /\ tickets[t].status = "open"
    /\ LET ticket == [tickets[t] EXCEPT !.last_customer_message_at = now]
           out == update_ticket_delay_status(
                     [tk |-> [tickets EXCEPT ![t] = ticket], slog |-> stateLog],
                     t, ticket)
       IN  /\ tickets' = out.tk
           /\ stateLog' = out.slog
    /\ last' = Req("customer_message", TRUE, t, None, None, None, 0)
    /\ UNCHANGED <<agents, transferLog, breakSessions>>

\* The agent answers on an open ticket: the time is recorded, with the
\* response time if this is the first answer, and the delay is evaluated
\* again.
agent_message(t) ==
    /\ tickets[t].status = "open"
    /\ LET first == tickets[t].first_response_at = NoTime
           ticket == [tickets[t] EXCEPT
                        !.last_agent_message_at = now,
                        !.first_response_at = IF first THEN now ELSE @,
                        !.response_time_seconds =
                            IF first THEN total_seconds(now - tickets[t].created_at)
                            ELSE @]
           out == update_ticket_delay_status(
                     [tk |-> [tickets EXCEPT ![t] = ticket], slog |-> stateLog],
                     t, ticket)
       IN  /\ tickets' = out.tk
           /\ stateLog' = out.slog
    /\ last' = Req("agent_message", TRUE, t, None, None, None, 0)
    /\ UNCHANGED <<agents, transferLog, breakSessions>>

\* Time passes between requests.
Tick ==
    /\ now < MaxTime
    /\ now' = now + 1
    /\ UNCHANGED <<max_capacity, agents, tickets, transferLog, stateLog,
                   breakSessions, ticket_numbers, today,
                   delay_threshold_minutes, messages, ratings, kpi,
                   last, workers>>

\* Both agents have logged in, the first ticket has just been created and
\* given to a1 (perform_create), and the administrator has set the threshold
\* to 1 (the default) or 3 minutes.
InitSla ==
    /\ max_capacity = [a \in Agents |-> IF a = "a1" THEN 1 ELSE 2]
    /\ agents = [a \in Agents |->
                   [is_online |-> TRUE,
                    status |-> IF a = "a1" THEN "busy" ELSE "available",
                    is_on_break |-> FALSE, break_started_at |-> NoTime,
                    total_break_minutes_today |-> 0,
                    current_active_tickets |-> IF a = "a1" THEN 1 ELSE 0]]
    /\ tickets = <<[status |-> "open", assigned_agent |-> "a1",
                    current_agent |-> "a1", customer |-> "c1", created_at |-> 0,
                    closed_at |-> NoTime, first_response_at |-> NoTime,
                    response_time_seconds |-> NoTime,
                    last_customer_message_at |-> NoTime,
                    last_agent_message_at |-> NoTime, is_delayed |-> FALSE,
                    delay_started_at |-> NoTime, delay_count |-> 0,
                    total_delay_minutes |-> 0,
                    category |-> "general", priority |-> "medium",
                    category_selected_at |-> NoTime,
                    last_message_at |-> NoTime]>>
    /\ transferLog = <<>>
    /\ stateLog = <<>>
    /\ breakSessions = <<>>
    /\ ticket_numbers = {}
    /\ today = 1
    /\ now = 0
    /\ delay_threshold_minutes \in {1, 3}
    /\ messages = <<>>
    /\ ratings = <<>>
    /\ kpi = <<>>
    /\ last = NoRequest
    /\ workers = [w \in Workers |-> Idle]

NextSla ==
    \/ Tick
    \/ \E t \in TicketIds : Budget /\ customer_message(t)
    \/ \E t \in TicketIds : Budget /\ agent_message(t)
    \/ Budget /\ conversations_list_api
    \/ \E t \in TicketIds : Budget /\ close(t)

SpecSla == InitSla /\ [][NextSla]_vars

\* ------------------------------------------------------ breaks over time
\* Both agents have logged in and the first ticket has just been created
\* and given to a1.
InitBreak ==
    /\ InitSla
    /\ delay_threshold_minutes = 1

\* Breaks are started and ended, and agents are logged out by a supervisor,
\* while the clock runs.
NextBreak ==
    \/ now < MaxBreakTime /\ Tick
    \/ \E a \in Agents : Budget /\ take_break(a)
    \/ \E a \in Agents : Budget /\ end_break(a)
    \/ \E a \in Agents : Budget /\ force_logout(a)

SpecBreak == InitBreak /\ [][NextBreak]_vars

\* ------------------------------------------------------ ticket numbers
\* A ticket number TKT-<date>-<sequence> is a record of its date and the
\* characters of its sequence part (decimal digits, most significant first).
TicketNumber(date, digits) == [date |-> date, seq |-> digits]

\* str(n) for n >= 0.
RECURSIVE DecimalDigits(_)
DecimalDigits(n) ==
    IF n < 10 THEN <<n>> ELSE Append(DecimalDigits(n \div 10), n % 10)

RECURSIVE ZeroPad(_, _)
ZeroPad(digits, width) ==
    IF Len(digits) >= width THEN digits ELSE ZeroPad(<<0>> \o digits, width)

\* f'{new_number:04d}': at least four characters, padded with zeros.
Format04d(n) == ZeroPad(DecimalDigits(n), 4)

\* int(ticket_number.split('-')[-1])
RECURSIVE ParseInt(_)
ParseInt(digits) ==
    IF digits = <<>> THEN 0
    ELSE 10 * ParseInt(SubSeq(digits, 1, Len(digits) - 1)) + digits[Len(digits)]

\* The greatest of the strings S in the order of the database (character by
\* character; a string is less than every string it is a proper prefix of).
\* The strings of S agree on their first i - 1 characters.
RECURSIVE StringMax(_, _)
StringMax(S, i) ==
    LET longer == {x \in S : Len(x) >= i} IN
    IF longer = {} THEN CHOOSE x \in S : TRUE
    ELSE LET d == CHOOSE d \in {x[i] : x \in longer} :
                     \A x \in longer : x[i] <= d
         IN  StringMax({x \in longer : x[i] = d}, i + 1)

\* generate_ticket_number() on the numbers in the table, read on day `date`:
\* the sequence number it formats.
generate_ticket_number(numbers, date) ==
    LET same_day == {x.seq : x \in {y \in numbers : y.date = date}} IN
    IF same_day # {} THEN ParseInt(StringMax(same_day, 1)) + 1 ELSE 1

\* perform_create as far as the ticket number goes: the number is generated
\* and the row is inserted; the unique constraint on ticket_number rejects a
\* number that exists (IntegrityError, no row).
save_with_ticket_number ==
    LET new_number == generate_ticket_number(ticket_numbers, today)
        ticket_number == TicketNumber(today, Format04d(new_number))
    IN  /\ last.seq < MaxRequests
        /\ IF ticket_number \in ticket_numbers
           THEN /\ ticket_numbers' = ticket_numbers
                /\ last' = Req("ticket_number", FALSE, 0, None, None, None,
                               new_number)
           ELSE /\ ticket_numbers' = ticket_numbers \cup {ticket_number}
                /\ last' = Req("ticket_number", TRUE, 0, None, None, None,
                               new_number)
        /\ UNCHANGED <<max_capacity, agents, tickets, transferLog, stateLog,
                       breakSessions, today, now, delay_threshold_minutes,
                       messages, ratings, kpi, workers>>

\* Midnight passes.
midnight ==
    /\ today < MaxDays
    /\ today' = today + 1
    /\ UNCHANGED <<max_capacity, agents, tickets, transferLog, stateLog,
                   breakSessions, ticket_numbers, now,
                   delay_threshold_minutes, messages, ratings, kpi,
                   last, workers>>

\* How many tickets day 1 has seen so far: none or a few, and the last
\* numbers that fit the four characters of the format.
StartCounts == {0, 1, 2, 8, 9, 10, 99, 100, 999, 1000, 9997, 9998, 9999}

\* Day 1 after k tickets have been created one after the other.
InitNumber ==
    /\ max_capacity = [a \in Agents |-> 2]
    /\ agents = [a \in Agents |->
                   [is_online |-> FALSE, status |-> "offline",
                    is_on_break |-> FALSE, break_started_at |-> NoTime,
                    total_break_minutes_today |-> 0,
                    current_active_tickets |-> 0]]
    /\ tickets = <<>>
    /\ transferLog = <<>>
    /\ stateLog = <<>>
    /\ breakSessions = <<>>
    /\ \E k \in StartCounts :
          ticket_numbers = {TicketNumber(1, Format04d(i)) : i \in 1..k}
    /\ today = 1
    /\ now = 0
    /\ delay_threshold_minutes = 1
    /\ messages = <<>>
    /\ ratings = <<>>
    /\ kpi = <<>>
    /\ last = NoRequest
    /\ workers = [w \in Workers |-> Idle]

NextNumber ==
    \/ save_with_ticket_number
    \/ midnight

SpecNumber == InitNumber /\ [][NextNumber]_vars

\* ------------------------------------------------------------- daily KPI
\* Ticks of 30 seconds in one day.
TicksPerDay == 2880

\* <DateTimeField>__date: the day (1, 2, ...) the instant `at` falls on.
DateOf(at) == at \div TicksPerDay + 1

\* A Message row, created now.
MessageRow(t, sender_type, sender) ==
    [ticket |-> t, sender_type |-> sender_type, sender |-> sender,
     message_text |-> "text", created_at |-> now]

\* A CustomerSatisfaction row.
RatingRow(t, agent, rating, created_at) ==
    [ticket |-> t, agent |-> agent, rating |-> rating, created_at |-> created_at]

\* aggregate(Sum(...)) of the values f[i] over the rows I.
RECURSIVE SumOf(_, _)
SumOf(f, I) ==
    IF I = {} THEN 0
    ELSE LET i == CHOOSE i \in I : TRUE IN f[i] + SumOf(f, I \ {i})

\* A float as the fraction <<numerator, denominator>> it approximates.
Zero == <<0, 1>>

\* What a DecimalField with two decimal places stores for the float q, in
\* hundredths.
Decimal2(q) == (200 * q[1] + q[2]) \div (2 * q[2])

\* The `defaults` calculate_agent_kpi computes for (agent, date) from the
\* rows of Ticket, Message, CustomerSatisfaction and AgentBreakSession.
KpiDefaults(agent, date, tk, msgs, rts, sessions) ==
    LET of_day == {t \in 1..Len(tk) : /\ tk[t].assigned_agent = agent
                                      /\ DateOf(tk[t].created_at) = date}
        total_tickets == Cardinality(of_day)
        closed_tickets == Cardinality({t \in of_day : tk[t].status = "closed"})
        timed == {t \in of_day : tk[t].response_time_seconds # NoTime}
        avg_response_time ==
            IF timed = {} THEN 0
            ELSE SumOf([t \in timed |-> tk[t].response_time_seconds], timed)
                    \div Cardinality(timed)
        messages_sent ==
            Cardinality({i \in 1..Len(msgs) :
                            /\ tk[msgs[i].ticket].assigned_agent = agent
                            /\ msgs[i].sender_type = "agent"
                            /\ msgs[i].sender = agent
                            /\ DateOf(msgs[i].created_at) = date})
        messages_received ==
            Cardinality({i \in 1..Len(msgs) :
                            /\ tk[msgs[i].ticket].assigned_agent = agent
                            /\ msgs[i].sender_type = "customer"
                            /\ DateOf(msgs[i].created_at) = date})
        delay_count == Cardinality({t \in of_day : tk[t].delay_count > 0})
        rated == {i \in 1..Len(rts) : /\ rts[i].agent = agent
                                      /\ DateOf(rts[i].created_at) = date}
        satisfaction ==
            IF rated = {} THEN Zero
            ELSE <<SumOf([i \in rated |-> rts[i].rating], rated), Cardinality(rated)>>
        break_sessions ==
            {i \in 1..Len(sessions) :
                /\ sessions[i].agent = agent
                /\ DateOf(sessions[i].break_start_time) = date
                /\ sessions[i].break_duration_seconds # NoTime}
        total_break_time_seconds ==
            SumOf([i \in break_sessions |-> sessions[i].break_duration_seconds],
                  break_sessions)
        tickets_with_response ==
            Cardinality({t \in of_day : tk[t].first_response_at # NoTime})
        first_response_rate ==
            IF total_tickets > 0
            THEN <<tickets_with_response * 100, total_tickets>> ELSE Zero
        resolution_rate ==
            IF total_tickets > 0
            THEN <<closed_tickets * 100, total_tickets>> ELSE Zero
        overall_kpi_score ==
            <<first_response_rate[1] * resolution_rate[2] * satisfaction[2]
                + resolution_rate[1] * first_response_rate[2] * satisfaction[2]
                + satisfaction[1] * 20 * first_response_rate[2] * resolution_rate[2],
              3 * first_response_rate[2] * resolution_rate[2] * satisfaction[2]>>
    IN  [total_tickets |-> total_tickets,
         closed_tickets |-> closed_tickets,
         avg_response_time_seconds |-> avg_response_time,
         messages_sent |-> messages_sent,
         messages_received |-> messages_received,
         delay_count |-> delay_count,
         total_break_time_seconds |-> total_break_time_seconds,
         break_count |-> Cardinality(break_sessions),
         customer_satisfaction_score |-> Decimal2(satisfaction),
         first_response_rate |-> Decimal2(first_response_rate),
         resolution_rate |-> Decimal2(resolution_rate),
         overall_kpi_score |-> Decimal2(overall_kpi_score)]

\* An AgentKPI row: the key and the metric columns.
KpiRow(agent, kpi_date, defaults) ==
    [agent |-> agent, kpi_date |-> kpi_date, metrics |-> defaults]

\* calculate_agent_kpi keeping a running total: the tickets counted are
\* added to the count of the row found.
calculate_agent_kpi_Incremental(table, agent, date, tk, msgs, rts, sessions) ==
    LET defaults == KpiDefaults(agent, date, tk, msgs, rts, sessions)
        found == {i \in 1..Len(table) : /\ table[i].agent = agent
                                        /\ table[i].kpi_date = date}
    IN  IF found = {} THEN Append(table, KpiRow(agent, date, defaults))
        ELSE IF Cardinality(found) = 1
        THEN [i \in 1..Len(table) |->
                IF i \in found
                THEN KpiRow(agent, date,
                        [defaults EXCEPT !.total_tickets =
                            table[i].metrics.total_tickets + @])
                ELSE table[i]]
        ELSE table

\* calculate_agent_kpi(agent, date) on the AgentKPI rows `table`:
\* update_or_create(agent=agent, kpi_date=date, defaults=...).  With several
\* rows for the key, get() raises and nothing is written.
calculate_agent_kpi(table, agent, date, tk, msgs, rts, sessions) ==
    LET defaults == KpiDefaults(agent, date, tk, msgs, rts, sessions)
        found == {i \in 1..Len(table) : /\ table[i].agent = agent
                                        /\ table[i].kpi_date = date}
    IN  IF found = {} THEN Append(table, KpiRow(agent, date, defaults))
        ELSE IF Cardinality(found) = 1
        THEN [i \in 1..Len(table) |->
                IF i \in found THEN KpiRow(agent, date, defaults) ELSE table[i]]
        ELSE table

\* calculate_agent_kpi(agent) as the last call of a handler: date is today
\* and the queries see what the handler has written.
KpiAfter(table, agent) ==
    IF agent = None THEN table
    ELSE calculate_agent_kpi(table, agent, DateOf(now), tickets', messages',
                             ratings', breakSessions')

\* AgentViewSet.kpi
AgentViewSet_kpi(a) ==
    /\ kpi' = calculate_agent_kpi(kpi, a, DateOf(now), tickets, messages,
                                  ratings, breakSessions)
    /\ last' = Req("kpi", TRUE, 0, a, None, None, 0)
    /\ UNCHANGED <<agents, tickets, transferLog, stateLog, breakSessions,
                   messages, ratings>>

\* TicketViewSet.perform_create with the KPI update that ends it.
perform_create_kpi(c) ==
    /\ perform_create(c)
    /\ UNCHANGED <<messages, ratings>>
    /\ kpi' = KpiAfter(kpi, last'.a)

\* TicketViewSet.close with the KPI update that ends it (not reached when
\* the ticket was closed already).
close_kpi(t) ==
    /\ close(t)
    /\ UNCHANGED <<messages, ratings>>
    /\ kpi' = IF last'.ok THEN KpiAfter(kpi, tickets[t].assigned_agent) ELSE kpi

\* A message of the customer is stored and recorded on its ticket.
customer_message_stored(t) ==
    /\ customer_message(t)
    /\ messages' = Append(messages, MessageRow(t, "customer", None))
    /\ UNCHANGED <<ratings, kpi>>

\* A message of the agent who holds the ticket is stored and recorded on it.
agent_message_stored(t) ==
    /\ tickets[t].current_agent # None
    /\ agent_message(t)
    /\ messages' = Append(messages,
                          MessageRow(t, "agent", tickets[t].current_agent))
    /\ UNCHANGED <<ratings, kpi>>

\* Midnight passes: the next instant is the first of the next day.
next_day ==
    /\ DateOf(now) < MaxDays
    /\ now' = TicksPerDay * DateOf(now)
    /\ today' = today + 1
    /\ UNCHANGED <<max_capacity, agents, tickets, transferLog, stateLog,
                   breakSessions, ticket_numbers, delay_threshold_minutes,
                   messages, ratings, kpi, last, workers>>

\* The ratings the customer of the first ticket may have left for a1.
FirstRatings ==
    {<<>>,
     <<RatingRow(1, "a1", 4, 0)>>,
     <<RatingRow(1, "a1", 4, 0), RatingRow(1, "a1", 5, 0)>>}

\* Both agents have logged in; the first ticket of the day was created for
\* a1 and closed (which computed a1's KPI row), and the customer has rated
\* it since or not.
InitKpi ==
    /\ max_capacity = [a \in Agents |-> 2]
    /\ agents = [a \in Agents |->
                   [is_online |-> TRUE, status |-> "available",
                    is_on_break |-> FALSE, break_started_at |-> NoTime,
                    total_break_minutes_today |-> 0,
                    current_active_tickets |-> 0]]
    /\ tickets = <<[status |-> "closed", assigned_agent |-> "a1",
                    current_agent |-> "a1", customer |-> "c1", created_at |-> 0,
                    closed_at |-> 0, first_response_at |-> NoTime,
                    response_time_seconds |-> NoTime,
                    last_customer_message_at |-> NoTime,
                    last_agent_message_at |-> NoTime, is_delayed |-> FALSE,
                    delay_started_at |-> NoTime, delay_count |-> 0,
                    total_delay_minutes |-> 0,
                    category |-> "general", priority |-> "medium",
                    category_selected_at |-> NoTime,
                    last_message_at |-> NoTime]>>
    /\ transferLog = <<>>
    /\ stateLog = <<StateRow(1, "open", "closed")>>
    /\ breakSessions = <<>>
    /\ ticket_numbers = {}
    /\ today = 1
    /\ now = 0
    /\ delay_threshold_minutes = 1
    /\ messages = <<>>
    /\ ratings \in FirstRatings
    /\ kpi = calculate_agent_kpi(<<>>, "a1", 1, tickets, <<>>, <<>>, <<>>)
    /\ last = NoRequest
    /\ workers = [w \in Workers |-> Idle]

\* A request of SpecKpi: handled at one instant, under unchanged settings.
BudgetKpi ==
    /\ last.seq < MaxKpiRequests
    /\ UNCHANGED <<max_capacity, workers, now, delay_threshold_minutes,
                   ticket_numbers, today>>

NextKpi ==
    \/ next_day
    \/ \E a \in Agents : BudgetKpi /\ AgentViewSet_kpi(a)
    \/ \E c \in Customers : BudgetKpi /\ perform_create_kpi(c)
    \/ \E t \in TicketIds : BudgetKpi /\ close_kpi(t)
    \/ \E t \in TicketIds : BudgetKpi /\ customer_message_stored(t)
    \/ \E t \in TicketIds : BudgetKpi /\ agent_message_stored(t)
    \/ \E a \in Agents :
          BudgetKpi /\ take_break(a) /\ UNCHANGED <<messages, ratings, kpi>>
    \/ \E a \in Agents :
          BudgetKpi /\ end_break(a) /\ UNCHANGED <<messages, ratings, kpi>>

SpecKpi == InitKpi /\ [][NextKpi]_vars

\* ------------------------------------------------ tickets without agent
\* The requests go on for ever: agents log in, start and end breaks,
\* tickets are created, closed and transferred by hand, and the pages that
\* sweep the delays are polled.  Only the tickets and the append-only logs
\* are bounded.
Settings ==
    UNCHANGED <<max_capacity, workers, now, delay_threshold_minutes,
                ticket_numbers, today, messages, ratings, kpi>>

\* Nobody has logged in yet; a1 takes one ticket at a time, a2 two.
InitOrphan ==
    /\ Init
    /\ max_capacity = [a \in Agents |-> IF a = "a1" THEN 1 ELSE 2]

NextOrphan ==
    \/ \E a \in Agents : Settings /\ LoginView_post(a)
    \/ \E a \in Agents :
          Len(transferLog) < MaxLogRows /\ Settings /\ take_break(a)
    \/ \E a \in Agents :
          Len(breakSessions) < MaxLogRows /\ Settings /\ end_break(a)
    \/ \E c \in Customers :
          Len(tickets) < MaxOrphanTickets /\ Settings /\ perform_create(c)
    \/ \E t \in TicketIds : Settings /\ close(t)
    \/ \E t \in TicketIds : \E a \in Agents :
          Len(transferLog) < MaxLogRows /\ Settings /\ transfer(t, a)
    \/ Settings /\ conversations_list_api

\* The events that recur without anybody deciding on them: every agent
\* logs in again and again, and the open pages keep polling.
SpecOrphan ==
    /\ InitOrphan
    /\ [][NextOrphan]_vars
    /\ \A a \in Agents : WF_vars(Settings /\ LoginView_post(a))
    /\ WF_vars(Settings /\ conversations_list_api)

\* ------------------------------------------- welcome message and menu
\* A message text is a sequence of characters.  str.strip() removes the
\* blanks at both ends.
RECURSIVE lstrip(_)
lstrip(text) ==
    IF text # <<>> /\ Head(text) = " " THEN lstrip(Tail(text)) ELSE text

RECURSIVE rstrip(_)
rstrip(text) ==
    IF text # <<>> /\ text[Len(text)] = " "
    THEN rstrip(SubSeq(text, 1, Len(text) - 1)) ELSE text

strip(text) == rstrip(lstrip(text))

\* The texts accepted for each menu entry (the digit and one keyword of
\* each list; the other spellings of the lists are compared the same way).
ComplaintChoices == {<<"1">>, <<"s", "h", "k", "w", "a">>}
MedicineChoices == {<<"2">>, <<"d", "w", "a">>}
FollowUpChoices == {<<"3">>}

\* The texts a customer sends.
MessageTexts ==
    {<<"1">>, <<" ", "2">>, <<"3", " ">>, <<"d", "w", "a">>, <<"4">>,
     <<"1", "2">>, <<>>}

\* The row of an automated reply: sender_type 'agent', the sender is the
\* user of the assigned agent.
ReplyRow(t, message_text) ==
    [MessageRow(t, "agent", tickets[t].assigned_agent)
        EXCEPT !.message_text = message_text]

\* send_welcome_message with the last_agent_message_at of the ticket
\* updated as for an answer of the agent.
send_welcome_message_AsAgentAnswer(c, given) ==
    LET found == IF given # 0 THEN {given}
                 ELSE {t \in TicketIds : /\ tickets[t].customer = c
                                         /\ tickets[t].status = "open"}
    IN  /\ given # 0 => tickets[given].customer = c
        /\ IF found = {}
           THEN /\ last' = Req("welcome", FALSE, 0, None, None, c, 0)
                /\ UNCHANGED <<tickets, messages>>
           ELSE \E t \in found :
                IF \E i \in 1..Len(messages) :
                       /\ messages[i].ticket = t
                       /\ messages[i].sender_type = "agent"
                       /\ messages[i].message_text = "welcome"
                THEN /\ last' = Req("welcome", TRUE, t, None, None, c, 0)
                     /\ UNCHANGED <<tickets, messages>>
                ELSE \E success \in BOOLEAN :
                     IF success
                     THEN /\ messages' = Append(messages, ReplyRow(t, "welcome"))
                          /\ tickets' = [tickets EXCEPT
                                           ![t].last_message_at = now,
                                           ![t].last_agent_message_at = now]
                          /\ last' = Req("welcome", TRUE, t, None, None, c, 1)
                     ELSE /\ last' = Req("welcome", FALSE, t, None, None, c, 0)
                          /\ UNCHANGED <<tickets, messages>>
        /\ UNCHANGED <<agents, transferLog, stateLog, breakSessions>>

\* send_welcome_message(customer, ticket): without a ticket (given = 0) the
\* first open ticket of the customer is taken (the query has no order); a ticket that
\* already has a welcome message gets no second one; the message is stored
\* only when the driver reports success.
send_welcome_message(c, given) ==
    LET found == IF given # 0 THEN {given}
                 ELSE {t \in TicketIds : /\ tickets[t].customer = c
                                         /\ tickets[t].status = "open"}
    IN  /\ given # 0 => tickets[given].customer = c
        /\ IF found = {}
           THEN /\ last' = Req("welcome", FALSE, 0, None, None, c, 0)
                /\ UNCHANGED <<tickets, messages>>
           ELSE \E t \in found :
                IF \E i \in 1..Len(messages) :
                       /\ messages[i].ticket = t
                       /\ messages[i].sender_type = "agent"
                       /\ messages[i].message_text = "welcome"
                THEN /\ last' = Req("welcome", TRUE, t, None, None, c, 0)
                     /\ UNCHANGED <<tickets, messages>>
                ELSE \E success \in BOOLEAN :
                     IF success
                     THEN /\ messages' = Append(messages, ReplyRow(t, "welcome"))
                          /\ tickets' = [tickets EXCEPT
                                           ![t].last_message_at = now]
                          /\ last' = Req("welcome", TRUE, t, None, None, c, 1)
                     ELSE /\ last' = Req("welcome", FALSE, t, None, None, c, 0)
                          /\ UNCHANGED <<tickets, messages>>
        /\ UNCHANGED <<agents, transferLog, stateLog, breakSessions>>

\* The three assignments of a valid branch of handle_menu_selection.
Classify(ticket, category, priority) ==
    [ticket EXCEPT !.category = category, !.priority = priority,
                   !.category_selected_at = now]

\* handle_menu_selection(customer, message_text, ticket): a valid choice
\* classifies the ticket and is answered; the answer is stored, and
\* last_message_at set, only when the driver reports success.  Any other
\* text returns invalid_selection before anything is written.
handle_menu_selection(t, message_text) ==
    LET selection == strip(message_text)
        ticket == tickets[t]
    IN  /\ ticket.status = "open"
        /\ IF selection \in ComplaintChoices \cup MedicineChoices
                               \cup FollowUpChoices
           THEN LET chosen ==
                      IF selection \in ComplaintChoices
                      THEN Classify(ticket, "complaint", "high")
                      ELSE IF selection \in MedicineChoices
                      THEN Classify(ticket, "medicine_order", "medium")
                      ELSE Classify(ticket, "follow_up", "low")
                IN  \E success \in BOOLEAN :
                      /\ tickets' = [tickets EXCEPT ![t] =
                            IF success
                            THEN [chosen EXCEPT !.last_message_at = now]
                            ELSE chosen]
                      /\ messages' = IF success
                                     THEN Append(messages, ReplyRow(t, "reply"))
                                     ELSE messages
                      /\ last' = Req("menu", TRUE, t, None, None,
                                     ticket.customer, IF success THEN 1 ELSE 0)
           ELSE /\ last' = Req("menu", FALSE, t, None, None, ticket.customer, 0)
                /\ UNCHANGED <<tickets, messages>>
        /\ UNCHANGED <<agents, transferLog, stateLog, breakSessions>>

\* The request budget of this specification; the message table changes.
BudgetMenu ==
    /\ last.seq < MaxMenuRequests
    /\ UNCHANGED <<max_capacity, workers, now, delay_threshold_minutes,
                   ticket_numbers, today, ratings, kpi>>

\* The customer of the first ticket writes, chooses from the menu and is
\* answered by the agent and by the automated replies, while time passes
\* and the open pages re-evaluate the delay.
NextMenu ==
    \/ now < MaxMenuTime /\ Tick
    \/ \E c \in Customers : \E given \in 0..Len(tickets) :
          BudgetMenu /\ send_welcome_message(c, given)
    \/ \E t \in TicketIds : \E message_text \in MessageTexts :
          BudgetMenu /\ handle_menu_selection(t, message_text)
    \/ \E t \in TicketIds :
          BudgetMenu /\ customer_message(t) /\ UNCHANGED messages
    \/ \E t \in TicketIds :
          BudgetMenu /\ agent_message(t) /\ UNCHANGED messages
    \/ BudgetMenu /\ conversations_list_api /\ UNCHANGED messages

SpecMenu == InitSla /\ [][NextMenu]_vars

\* --------------------------- concurrent close and delay re-evaluation
\* TicketViewSet.close and the delay sweep handled by concurrent workers:
\* each query and each save() or create() is one step, and the steps of two
\* requests interleave.  No handler takes a lock or opens a transaction.

\* The requests in flight.
Running == Cardinality({w \in Workers : workers[w].pc # "idle"})

\* ticket = self.get_object(): the queryset of the view set selects the
\* ticket together with its current_agent (select_related).
close_get(w, t) ==
    /\ workers[w].pc = "idle"
    /\ last.seq + Running < MaxRaceRequests
    /\ workers' = [workers EXCEPT ![w] =
          [pc |-> "close_loaded", t |-> t, ticket |-> tickets[t],
           agent |-> IF tickets[t].current_agent = None THEN None
                     ELSE agents[tickets[t].current_agent]]]
    /\ UNCHANGED <<agents, tickets, transferLog, stateLog, breakSessions, now,
                 delay_threshold_minutes, max_capacity,
                 ticket_numbers, today, messages, ratings, kpi, last>>

\* The test of ticket.status on the loaded instance, then ticket.save():
\* the instance is written back whole.
close_save_ticket(w) ==
    /\ workers[w].pc = "close_loaded"
    /\ LET ticket == workers[w].ticket
           t == workers[w].t
       IN  IF ticket.status = "closed"
           THEN /\ workers' = [workers EXCEPT ![w] = Idle]
                /\ last' = Req("close", FALSE, t, None, None, None, 0)
                /\ UNCHANGED tickets
           ELSE /\ tickets' = [tickets EXCEPT ![t] =
                      [ticket EXCEPT !.status = "closed", !.closed_at = now]]
                /\ workers' = [workers EXCEPT ![w].pc = "close_ticket_saved"]
                /\ UNCHANGED last
    /\ UNCHANGED <<agents, transferLog, stateLog, breakSessions, now,
                 delay_threshold_minutes, max_capacity,
                 ticket_numbers, today, messages, ratings, kpi>>

\* agent = ticket.current_agent ... agent.save(): the agent instance loaded
\* with the ticket is changed and written back whole.
close_save_agent(w) ==
    /\ workers[w].pc = "close_ticket_saved"
    /\ LET a == workers[w].ticket.current_agent IN
       agents' = IF a # None
                 THEN [agents EXCEPT ![a] = ReleaseSlot(workers[w].agent, a)]
                 ELSE agents
    /\ workers' = [workers EXCEPT ![w].pc = "close_agent_saved"]
    /\ UNCHANGED <<tickets, transferLog, stateLog, breakSessions, now,
                 delay_threshold_minutes, max_capacity,
                 ticket_numbers, today, messages, ratings, kpi, last>>

\* TicketStateLog.objects.create(...) and the response.
close_log(w) ==
    /\ workers[w].pc = "close_agent_saved"
    /\ stateLog' = Append(stateLog,
          StateRow(workers[w].t, workers[w].ticket.status, "closed"))
    /\ last' = Req("close", TRUE, workers[w].t,
                   workers[w].ticket.current_agent, None, None, 0)
    /\ workers' = [workers EXCEPT ![w] = Idle]
    /\ UNCHANGED <<agents, tickets, transferLog, breakSessions, now,
                 delay_threshold_minutes, max_capacity,
                 ticket_numbers, today, messages, ratings, kpi>>

\* all_open_tickets = Ticket.objects.filter(status='open'): the loop loads
\* the instances of all open tickets when it starts.
sweep_load(w) ==
    /\ workers[w].pc = "idle"
    /\ last.seq + Running < MaxRaceRequests
    /\ \E order \in Orders({t \in TicketIds : tickets[t].status = "open"}) :
          IF order = <<>>
          THEN /\ last' = Req("delay_sweep", TRUE, 0, None, None, None, 0)
               /\ UNCHANGED workers
          ELSE /\ workers' = [workers EXCEPT ![w] =
                     [pc |-> "sweep_loaded", order |-> order,
                      loaded |-> tickets, rows |-> <<>>, n |-> 0]]
               /\ UNCHANGED last
    /\ UNCHANGED <<agents, tickets, transferLog, stateLog, breakSessions, now,
                 delay_threshold_minutes, max_capacity,
                 ticket_numbers, today, messages, ratings, kpi>>

\* The loop goes on to the next loaded ticket, or the handler answers.
sweep_next(w, n) ==
    IF Len(workers[w].order) = 1
    THEN /\ workers' = [workers EXCEPT ![w] = Idle]
         /\ last' = Req("delay_sweep", TRUE, 0, None, None, None, n)
    ELSE /\ workers' = [workers EXCEPT ![w] =
               [@ EXCEPT !.pc = "sweep_loaded", !.order = Tail(@),
                         !.rows = <<>>, !.n = n]]
         /\ UNCHANGED last

\* update_ticket_delay_status(ticket) up to its save(): the decision is
\* taken on the loaded instance at the present instant.
sweep_save(w) ==
    /\ workers[w].pc = "sweep_loaded"
    /\ LET t == Head(workers[w].order)
           out == update_ticket_delay_status(
                     [tk |-> tickets, slog |-> <<>>], t, workers[w].loaded[t])
       IN  /\ tickets' = out.tk
           /\ IF out.slog = <<>>
              THEN sweep_next(w, workers[w].n)
              ELSE /\ workers' = [workers EXCEPT ![w] =
                         [@ EXCEPT !.pc = "sweep_saved", !.rows = out.slog]]
                   /\ UNCHANGED last
    /\ UNCHANGED <<agents, transferLog, stateLog, breakSessions, now,
                 delay_threshold_minutes, max_capacity,
                 ticket_numbers, today, messages, ratings, kpi>>

\* TicketStateLog.objects.create(...) of update_ticket_delay_status.
sweep_log(w) ==
    /\ workers[w].pc = "sweep_saved"
    /\ stateLog' = stateLog \o workers[w].rows
    /\ sweep_next(w, workers[w].n + 1)
    /\ UNCHANGED <<agents, tickets, transferLog, breakSessions, now,
                 delay_threshold_minutes, max_capacity,
                 ticket_numbers, today, messages, ratings, kpi>>

\* A request handled in one step while others are in flight.
BudgetRace ==
    /\ last.seq + Running < MaxRaceRequests
    /\ UNCHANGED <<max_capacity, workers, now, delay_threshold_minutes,
                   ticket_numbers, today, messages, ratings, kpi>>

\* Messages arrive and time passes while two workers re-evaluate delays.
NextReevaluation ==
    \/ now < MaxRaceTime /\ Tick
    \/ \E t \in TicketIds : BudgetRace /\ customer_message(t)
    \/ \E t \in TicketIds : BudgetRace /\ agent_message(t)
    \/ \E w \in Workers : sweep_load(w)
    \/ \E w \in Workers : sweep_save(w)
    \/ \E w \in Workers : sweep_log(w)

SpecReevaluation == InitSla /\ [][NextReevaluation]_vars

\* Messages arrive and time passes while two workers close tickets and
\* re-evaluate delays.
NextConcurrent ==
    \/ now < MaxRaceTime /\ Tick
    \/ \E t \in TicketIds : BudgetRace /\ customer_message(t)
    \/ \E t \in TicketIds : BudgetRace /\ agent_message(t)
    \/ \E w \in Workers : \E t \in TicketIds : close_get(w, t)
    \/ \E w \in Workers : close_save_ticket(w)
    \/ \E w \in Workers : close_save_agent(w)
    \/ \E w \in Workers : close_log(w)
    \/ \E w \in Workers : sweep_load(w)
    \/ \E w \in Workers : sweep_save(w)
    \/ \E w \in Workers : sweep_log(w)

SpecConcurrent == InitSla /\ [][NextConcurrent]_vars

\* ================================================================ claims

\* C1: in every reachable state every agent has
\* 0 <= current_active_tickets <= max_capacity.
C1_CountWithinCapacity ==
    \A a \in Agents :
        /\ 0 <= agents[a].current_active_tickets
        /\ agents[a].current_active_tickets <= max_capacity[a]

\* C2: in every reachable state an agent that is online and not on break has
\* status busy if and only if its current_active_tickets >= max_capacity.
C2_BusyIffFull ==
    \A a \in Agents :
        (agents[a].is_online /\ ~agents[a].is_on_break) =>
            (agents[a].status = "busy"
                <=> agents[a].current_active_tickets >= max_capacity[a])

\* C3: between requests, every agent's current_active_tickets equals the
\* number of open tickets whose current_agent is that agent.
C3_CountIsOpenTickets ==
    \A a \in Agents :
        agents[a].current_active_tickets
            = Cardinality({t \in TicketIds : tickets[t].status = "open"
                                            /\ tickets[t].current_agent = a})
\* C4: get_available_agent returns an agent only if it is online, has status
\* available, is not on break and is below capacity; the agent returned has
\* the least current_active_tickets among those; it returns none exactly
\* when no agent is eligible.
C4_SelectionIsLeastLoadedEligible ==
    LET eligible == {a \in Agents :
                        /\ agents[a].is_online = TRUE
                        /\ agents[a].status = "available"
                        /\ agents[a].is_on_break = FALSE
                        /\ agents[a].current_active_tickets < max_capacity[a]}
    IN  \A r \in get_available_agent(agents) :
            /\ r # None =>
                 /\ r \in eligible
                 /\ \A b \in eligible : agents[r].current_active_tickets
                                          <= agents[b].current_active_tickets
            /\ r = None <=> eligible = {}

\* A ticket creation has just selected the less loaded of two eligible agents.
C4_Witness ==
    /\ last.op = "create"
    /\ last.a # None
    /\ \E b \in Agents \ {last.a} :
          /\ agents[b].is_online /\ agents[b].status = "available"
          /\ ~agents[b].is_on_break
          /\ agents[b].current_active_tickets < max_capacity[b]
          /\ agents[b].current_active_tickets
                > agents[last.a].current_active_tickets - 1

\* C5: CreateTicket with an eligible agent makes the new ticket open with
\* assigned_agent = current_agent = the selected agent, raises that agent's
\* count by exactly one and makes it busy exactly when the count reaches
\* max_capacity; with no eligible agent the ticket is open without an agent
\* and no agent row changes.
C5_CreateAssignsAndReserves ==
    [][last'.op = "create" =>
        LET id == last'.t
            sel == last'.a
            eligible == {a \in Agents :
                            /\ agents[a].is_online
                            /\ agents[a].status = "available"
                            /\ ~agents[a].is_on_break
                            /\ agents[a].current_active_tickets < max_capacity[a]}
        IN  /\ Len(tickets') = Len(tickets) + 1
            /\ id = Len(tickets')
            /\ \A t \in 1..Len(tickets) : tickets'[t] = tickets[t]
            /\ tickets'[id].status = "open"
            /\ IF eligible # {}
               THEN /\ sel \in eligible
                    /\ tickets'[id].assigned_agent = sel
                    /\ tickets'[id].current_agent = sel
                    /\ agents'[sel].current_active_tickets
                          = agents[sel].current_active_tickets + 1
                    /\ agents'[sel].status = "busy"
                          <=> agents'[sel].current_active_tickets
                                 >= max_capacity[sel]
                    /\ agents'[sel].is_online = agents[sel].is_online
                    /\ agents'[sel].is_on_break = agents[sel].is_on_break
                    /\ \A b \in Agents \ {sel} : agents'[b] = agents[b]
               ELSE /\ sel = None
                    /\ tickets'[id].assigned_agent = None
                    /\ tickets'[id].current_agent = None
                    /\ agents' = agents
    ]_vars

\* A ticket creation has just filled its agent, which is now busy.
C5_Witness ==
    /\ last.op = "create"
    /\ last.a # None
    /\ tickets[last.t].current_agent = last.a
    /\ agents[last.a].status = "busy"
    /\ agents[last.a].current_active_tickets = max_capacity[last.a]

\* C6: slot reservation is atomic: whenever no ticket creation is in flight,
\* every agent's count has grown by exactly the number of tickets placed on
\* it (it started at 0) and does not exceed max_capacity, however the steps
\* of concurrent creations interleaved.
C6_NoLostReservation ==
    (\A w \in Workers : workers[w].pc = "idle") =>
        \A a \in Agents :
            /\ agents[a].current_active_tickets
                  = Cardinality({t \in TicketIds : tickets[t].current_agent = a})
            /\ agents[a].current_active_tickets <= max_capacity[a]

\* C7: a transfer request (single-ticket or per-customer endpoint) whose
\* target agent is already at max_capacity changes no ticket, no agent and
\* no transfer-log row.
C7_FullTargetIsRejected ==
    [][(/\ last'.op \in {"transfer", "transfer_api"}
        /\ agents[last'.a].current_active_tickets >= max_capacity[last'.a])
          => UNCHANGED <<agents, tickets, transferLog>>
    ]_vars

C9_EveryReassignmentAudited ==
    [][LET first == Len(transferLog) + 1
           new_rows == {i \in first..Len(transferLog')  : TRUE}
       IN  /\ \A t \in 1..Len(tickets) :
                 tickets'[t].current_agent # tickets[t].current_agent =>
                    /\ Cardinality({i \in new_rows :
                                      transferLog'[i].ticket = t}) = 1
                    /\ \E i \in new_rows :
                          /\ transferLog'[i].ticket = t
                          /\ transferLog'[i].from_agent = tickets[t].current_agent
                          /\ transferLog'[i].to_agent = tickets'[t].current_agent
           /\ \A i \in new_rows :
                 LET r == transferLog'[i] IN
                 /\ r.ticket \in 1..Len(tickets)
                 /\ r.from_agent = tickets[r.ticket].current_agent
                 /\ r.to_agent = tickets'[r.ticket].current_agent
                 /\ r.from_agent # r.to_agent
    ]_vars

\* C10: once a ticket is closed no request changes its status or its
\* current_agent, and a transfer or close of a closed ticket changes no
\* agent's count.
C10_ClosedIsTerminal ==
    [][/\ \A t \in 1..Len(tickets) :
             tickets[t].status = "closed" => tickets'[t] = tickets[t]
       /\ (/\ last'.op \in {"transfer", "close"}
           /\ tickets[last'.t].status = "closed")
             => \A a \in Agents :
                   agents'[a].current_active_tickets
                      = agents[a].current_active_tickets
    ]_vars

\* C11: closing a ticket that is already closed is rejected and changes
\* nothing: no ticket field (closed_at included), no agent's count, no
\* state-log row and no transfer-log row.
C11_CloseClosedIsRejected ==
    [][(last'.op = "close" /\ tickets[last'.t].status = "closed") =>
          /\ ~last'.ok
          /\ UNCHANGED <<agents, tickets, stateLog, transferLog>>
    ]_vars

\* A close of a closed ticket has just been rejected while the ticket's
\* agent holds an open ticket, so a second decrement would have shown.
C11_Witness ==
    /\ last.op = "close"
    /\ ~last.ok
    /\ tickets[last.t].status = "closed"
    /\ tickets[last.t].current_agent # None
    /\ agents[tickets[last.t].current_agent].current_active_tickets >= 1

\* C12: a successful close of an open ticket sets status = closed and
\* closed_at = now, lowers the current agent's count by exactly one (not
\* below 0), changes no other agent's count and appends exactly one
\* state-log row (open -> closed) for the ticket.
C12_CloseReleasesAndLogs ==
    [][(last'.op = "close" /\ tickets[last'.t].status = "open") =>
        LET t == last'.t
            cur == tickets[t].current_agent
        IN  /\ last'.ok
            /\ tickets'[t].status = "closed"
            /\ tickets'[t].closed_at = now
            /\ tickets'[t].closed_at # NoTime
            /\ \A u \in 1..Len(tickets) : u # t => tickets'[u] = tickets[u]
            /\ \A a \in Agents :
                  agents'[a].current_active_tickets =
                     IF a = cur
                     THEN (IF agents[a].current_active_tickets >= 1
                           THEN agents[a].current_active_tickets - 1 ELSE 0)
                     ELSE agents[a].current_active_tickets
            /\ Len(stateLog') = Len(stateLog) + 1
            /\ SubSeq(stateLog', 1, Len(stateLog)) = stateLog
            /\ stateLog'[Len(stateLog')] =
                  [ticket |-> t, old_state |-> "open", new_state |-> "closed"]
    ]_vars

\* An open ticket held by an agent has just been closed: the agent has one
\* ticket less and the last state-log row is the ticket's.
C12_Witness ==
    /\ last.op = "close"
    /\ last.ok
    /\ last.a # None
    /\ tickets[last.t].status = "closed"
    /\ tickets[last.t].closed_at = now
    /\ stateLog # <<>>
    /\ stateLog[Len(stateLog)].ticket = last.t
    /\ agents[last.a].current_active_tickets >= 1

\* C13: the delay decision on any ticket, at any instant: not delayed if
\* the ticket is closed; not delayed if no customer message is recorded;
\* not delayed if the agent's last message is later than the customer's;
\* otherwise delayed exactly when more than the threshold has passed since
\* the customer's last message (2 ticks of 30 seconds per minute), so not
\* at exactly the threshold.
C13_DelayDecision ==
    \A t \in TicketIds :
        LET ticket == tickets[t]
            customer_at == ticket.last_customer_message_at
            agent_at == ticket.last_agent_message_at
            delayed == check_ticket_delay(ticket)
        IN  /\ ticket.status = "closed" => ~delayed
            /\ customer_at = NoTime => ~delayed
            /\ (agent_at # NoTime /\ customer_at # NoTime
                   /\ agent_at > customer_at) => ~delayed
            /\ (/\ ticket.status = "open"
                /\ customer_at # NoTime
                /\ (agent_at = NoTime \/ agent_at <= customer_at))
                  => (delayed <=> now - customer_at > 2 * delay_threshold_minutes)

\* A sweep has just run exactly one threshold after an unanswered customer
\* message and has left the ticket not delayed.
C13_Witness ==
    /\ last.op = "delay_sweep"
    /\ \E t \in TicketIds :
          /\ tickets[t].status = "open"
          /\ tickets[t].last_customer_message_at # NoTime
          /\ tickets[t].last_agent_message_at = NoTime
          /\ now - tickets[t].last_customer_message_at
                = 2 * delay_threshold_minutes
          /\ ~tickets[t].is_delayed
          /\ ~check_ticket_delay(tickets[t])

\* C14: delay re-evaluation is idempotent: in every reachable state, for
\* every ticket, a second call of update_ticket_delay_status right after a
\* first one (no message in between) leaves delay_count and
\* total_delay_minutes as the first call left them and appends no
\* state-log row.
C14_ReevaluationIdempotent ==
    \A t \in TicketIds :
        LET first == update_ticket_delay_status(
                        [tk |-> tickets, slog |-> stateLog], t, tickets[t])
            second == update_ticket_delay_status(first, t, first.tk[t])
        IN  /\ second.tk[t].delay_count = first.tk[t].delay_count
            /\ second.tk[t].total_delay_minutes = first.tk[t].total_delay_minutes
            /\ second.slog = first.slog

\* A sweep has just run over a ticket that an earlier evaluation had
\* flagged as delayed, and has written nothing.
C14_Witness ==
    /\ last.op = "delay_sweep"
    /\ last.n = 0
    /\ stateLog # <<>>
    /\ LET row == stateLog[Len(stateLog)] IN
          /\ row.new_state = "delayed"
          /\ tickets[row.ticket].status = "open"
          /\ tickets[row.ticket].is_delayed
          /\ tickets[row.ticket].delay_count = 1
          /\ tickets[row.ticket].delay_started_at < now

\* C15: with a threshold of 3 minutes, a customer message at T0 and no agent
\* message, a sweep at T0 + 4 min (8 ticks) sets is_delayed and delay_count
\* = 1; when the agent then answers at T0 + 5 min (10 ticks), the next
\* re-evaluation clears is_delayed and leaves total_delay_minutes = 2.
C15_DelayScenario ==
    [][\A t \in 1..Len(tickets) :
        LET T0 == tickets[t].last_customer_message_at IN
        (/\ last'.seq = last.seq + 1
         /\ delay_threshold_minutes = 3
         /\ tickets[t].status = "open"
         /\ T0 # NoTime
         /\ tickets'[t].last_customer_message_at = T0) =>
           /\ (/\ last'.op = "delay_sweep"
               /\ now = T0 + 8
               /\ tickets[t].last_agent_message_at = NoTime
               /\ ~tickets[t].is_delayed
               /\ tickets[t].delay_count = 0)
                 => /\ tickets'[t].is_delayed
                    /\ tickets'[t].delay_count = 1
           /\ (/\ last'.op \in {"delay_sweep", "agent_message"}
               /\ tickets[t].is_delayed
               /\ tickets[t].delay_started_at = T0 + 8
               /\ tickets[t].delay_count = 1
               /\ tickets[t].total_delay_minutes = 0
               /\ tickets'[t].last_agent_message_at = T0 + 10)
                 => /\ ~tickets'[t].is_delayed
                    /\ tickets'[t].total_delay_minutes = 2
    ]_vars

\* C16: a break start on an agent that is already on break, and a break end
\* on an agent that is not on break, are rejected and change no agent, no
\* ticket, no transfer-log row and no break session.
C16_InvalidBreakTransitionRejected ==
    [][(\/ last'.op = "take_break" /\ agents[last'.a].is_on_break
        \/ last'.op = "end_break" /\ ~agents[last'.a].is_on_break) =>
          /\ ~last'.ok
          /\ UNCHANGED <<agents, tickets, transferLog, breakSessions>>
    ]_vars

\* A break start has just been rejected for an agent on break that still
\* holds an open ticket while another agent could have taken it.
C16_Witness ==
    /\ last.op = "take_break"
    /\ ~last.ok
    /\ agents[last.a].is_on_break
    /\ OpenTicketsOf(tickets, last.a) # {}
    /\ \E b \in Agents \ {last.a} : AvailableFilter(agents, b)

\* C17: a break start sets is_on_break and break_started_at = now, the
\* start time is kept while the break lasts, and the break end that follows
\* clears is_on_break and break_started_at and appends exactly one
\* AgentBreakSession row of that agent, from the start to now, whose
\* break_duration_seconds is the time elapsed between the two calls.
C17_BreakRoundTrip ==
    [][\A a \in Agents :
        /\ (/\ last'.seq = last.seq + 1
            /\ last'.op = "take_break" /\ last'.a = a /\ last'.ok) =>
              /\ agents'[a].is_on_break
              /\ agents'[a].break_started_at = now
        /\ (agents[a].is_on_break /\ agents'[a].is_on_break) =>
              agents'[a].break_started_at = agents[a].break_started_at
        /\ (/\ last'.seq = last.seq + 1
            /\ last'.op = "end_break" /\ last'.a = a
            /\ agents[a].is_on_break) =>
              LET started == agents[a].break_started_at IN
              /\ started # NoTime
              /\ ~agents'[a].is_on_break
              /\ agents'[a].break_started_at = NoTime
              /\ Len(breakSessions') = Len(breakSessions) + 1
              /\ SubSeq(breakSessions', 1, Len(breakSessions)) = breakSessions
              /\ breakSessions'[Len(breakSessions')] =
                    [agent |-> a, break_start_time |-> started,
                     break_end_time |-> now,
                     break_duration_seconds |-> 30 * (now - started)]
    ]_vars

\* A break that lasted some time has just been ended and its session row is
\* the last one.
C17_Witness ==
    /\ last.op = "end_break"
    /\ last.ok
    /\ ~agents[last.a].is_on_break
    /\ agents[last.a].break_started_at = NoTime
    /\ breakSessions # <<>>
    /\ LET row == breakSessions[Len(breakSessions)] IN
          /\ row.agent = last.a
          /\ row.break_end_time = now
          /\ row.break_start_time < now
          /\ row.break_duration_seconds > 0

\* C18: when agent A, holding n >= 1 open tickets, starts a break while
\* another agent B is eligible and has at least n free slots, every one of
\* A's open tickets ends with an agent other than A, exactly n transfer-log
\* rows with the break reason are appended, the reported count is n and A's
\* count is 0.
C18_BreakDrainsToOtherAgent ==
    [][\A A \in Agents :
        LET held == OpenTicketsOf(tickets, A)
            n == Cardinality(held)
        IN  (/\ last'.op = "take_break" /\ last'.a = A
             /\ ~agents[A].is_on_break
             /\ n >= 1
             /\ \E B \in Agents \ {A} :
                   /\ AvailableFilter(agents, B)
                   /\ max_capacity[B] - agents[B].current_active_tickets >= n) =>
               /\ \A t \in held : tickets'[t].current_agent \in Agents \ {A}
               /\ Len(transferLog') = Len(transferLog) + n
               /\ \A i \in (Len(transferLog) + 1)..Len(transferLog') :
                     transferLog'[i].reason = "break"
               /\ last'.n = n
               /\ agents'[A].current_active_tickets = 0
    ]_vars

\* C19: no request gives a ticket to an agent that is on break: a ticket
\* whose current_agent becomes a (a new ticket, or one that another agent or
\* nobody held) never does so while a.is_on_break is true.
C19_NoTicketsWhileOnBreak ==
    [][\A a \in Agents : \A t \in 1..Len(tickets') :
        (/\ agents[a].is_on_break
         /\ tickets'[t].current_agent = a) =>
           /\ t <= Len(tickets)
           /\ tickets[t].current_agent = a
    ]_vars

\* C20: every ticket number generated on a day is distinct from all
\* existing numbers and its sequence is strictly greater than every
\* sequence already issued that day, also when the sequence grows past the
\* four characters of the format.
C20_TicketNumbersUniqueAndIncreasing ==
    [][(last'.seq = last.seq + 1 /\ last'.op = "ticket_number") =>
          /\ TicketNumber(today, Format04d(last'.n)) \notin ticket_numbers
          /\ \A x \in ticket_numbers :
                x.date = today => ParseInt(x.seq) < last'.n
          /\ last'.ok
    ]_vars
C22_OrphanEventuallyAssigned ==
    \A t \in 1..MaxOrphanTickets :
        ~<>[](/\ t <= Len(tickets)
              /\ tickets[t].status = "open"
              /\ tickets[t].current_agent = None
              /\ \E a \in Agents : AvailableFilter(agents, a))
\* C23: a close, a bulk close or a transfer changes an agent's status to
\* available only if the agent is then below capacity and is neither
\* offline nor on break; the status of an offline or on-break agent never
\* becomes available by such a request.
C23_ReleaseRespectsOfflineAndBreak ==
    [][\A a \in Agents :
        (/\ last'.op \in {"close", "close_all_open", "transfer", "transfer_api"}
         /\ agents[a].status # "available"
         /\ agents'[a].status = "available") =>
           /\ agents'[a].current_active_tickets < max_capacity[a]
           /\ agents[a].is_online
           /\ ~agents[a].is_on_break
    ]_vars
\* C24: assignment is deterministic: in every reachable state
\* get_available_agent has one possible result, and when several eligible
\* agents share the least current_active_tickets the result is the one of
\* them with the smallest id.
C24_SelectionDeterministic ==
    /\ Cardinality(get_available_agent(agents)) = 1
    /\ \A r \in get_available_agent(agents) :
          r # None =>
             \A b \in Agents :
                (/\ AvailableFilter(agents, b)
                 /\ agents[b].current_active_tickets
                       = agents[r].current_active_tickets)
                   => AgentId(r) <= AgentId(b)
\* C25: in every reachable state, a ticket whose last_agent_message_at is
\* equal to its last_customer_message_at is decided not delayed, however
\* much time has passed since.
C25_EqualTimestampsAnswered ==
    \A t \in TicketIds :
        (/\ tickets[t].last_customer_message_at # NoTime
         /\ tickets[t].last_agent_message_at
               = tickets[t].last_customer_message_at)
           => ~check_ticket_delay(tickets[t])
\* C26: each change of a ticket from not delayed to delayed sets is_delayed,
\* sets delay_started_at = now, raises delay_count by exactly one, changes
\* no other field of the ticket and appends exactly one state-log row of the
\* ticket, with new_state delayed; and a sweep that finds an open, unflagged
\* ticket past the threshold makes that change.
C26_OpenToDelayedCrossing ==
    [][\A t \in 1..Len(tickets) :
        LET new_rows == {i \in (Len(stateLog) + 1)..Len(stateLog') :
                            stateLog'[i].ticket = t}
        IN  /\ (/\ last'.seq = last.seq + 1
                /\ ~tickets[t].is_delayed
                /\ tickets'[t].is_delayed) =>
                  /\ tickets'[t] = [tickets[t] EXCEPT
                                      !.is_delayed = TRUE,
                                      !.delay_started_at = now,
                                      !.delay_count = tickets[t].delay_count + 1]
                  /\ Cardinality(new_rows) = 1
                  /\ \A i \in new_rows :
                        /\ stateLog'[i].old_state = "open"
                        /\ stateLog'[i].new_state = "delayed"
                  /\ SubSeq(stateLog', 1, Len(stateLog)) = stateLog
            /\ (/\ last'.seq = last.seq + 1
                /\ last'.op = "delay_sweep"
                /\ tickets[t].status = "open"
                /\ ~tickets[t].is_delayed
                /\ tickets[t].last_customer_message_at # NoTime
                /\ tickets[t].last_agent_message_at
                      < tickets[t].last_customer_message_at
                /\ now - tickets[t].last_customer_message_at
                      > 2 * delay_threshold_minutes) =>
                  tickets'[t].is_delayed
    ]_vars

\* A sweep has just flagged a ticket as delayed for the second time.
C26_Witness ==
    /\ last.op = "delay_sweep"
    /\ last.n = 1
    /\ \E t \in TicketIds :
          /\ tickets[t].is_delayed
          /\ tickets[t].delay_started_at = now
          /\ tickets[t].delay_count = 2
          /\ stateLog[Len(stateLog)] = StateRow(t, "open", "delayed")

\* C27: each change of a ticket from delayed to not delayed adds the whole
\* minutes passed since delay_started_at (2 ticks per minute) to
\* total_delay_minutes, clears is_delayed and delay_started_at, leaves
\* delay_count as it was and appends exactly one state-log row of the ticket
\* (delayed -> open); and no step lowers total_delay_minutes or delay_count.
C27_DelayedToOpenCrossing ==
    [][\A t \in 1..Len(tickets) :
        LET new_rows == {i \in (Len(stateLog) + 1)..Len(stateLog') :
                            stateLog'[i].ticket = t}
        IN  /\ (/\ last'.seq = last.seq + 1
                /\ tickets[t].is_delayed
                /\ ~tickets'[t].is_delayed) =>
                  /\ tickets[t].delay_started_at # NoTime
                  /\ tickets'[t].total_delay_minutes
                        = tickets[t].total_delay_minutes
                            + (now - tickets[t].delay_started_at) \div 2
                  /\ tickets'[t].delay_started_at = NoTime
                  /\ tickets'[t].delay_count = tickets[t].delay_count
                  /\ Cardinality(new_rows) = 1
                  /\ \A i \in new_rows :
                        /\ stateLog'[i].old_state = "delayed"
                        /\ stateLog'[i].new_state = "open"
            /\ tickets'[t].total_delay_minutes >= tickets[t].total_delay_minutes
            /\ tickets'[t].delay_count >= tickets[t].delay_count
    ]_vars

\* The agent has just answered a ticket that had been delayed for more than
\* a minute: the ticket is no longer delayed and the minutes are counted.
C27_Witness ==
    /\ last.op = "agent_message"
    /\ ~tickets[last.t].is_delayed
    /\ tickets[last.t].delay_started_at = NoTime
    /\ tickets[last.t].total_delay_minutes >= 1
    /\ tickets[last.t].delay_count = 1
    /\ tickets[last.t].last_agent_message_at = now
    /\ stateLog[Len(stateLog)] = StateRow(last.t, "delayed", "open")

\* C28: an open ticket stops being delayed only when the agent's last
\* message is at or after the customer's last message: a further customer
\* message on a ticket the agent has not answered neither clears is_delayed
\* nor adds to total_delay_minutes nor logs a row (delayed -> open).
C28_DelayEndsOnlyByAnswer ==
    [][\A t \in 1..Len(tickets) :
        (/\ last'.seq = last.seq + 1
         /\ tickets[t].status = "open"
         /\ tickets'[t].status = "open"
         /\ tickets[t].is_delayed
         /\ \/ ~tickets'[t].is_delayed
            \/ tickets'[t].total_delay_minutes # tickets[t].total_delay_minutes
            \/ Len(stateLog') > Len(stateLog)) =>
           /\ tickets'[t].last_agent_message_at # NoTime
           /\ tickets'[t].last_agent_message_at
                 >= tickets'[t].last_customer_message_at
    ]_vars

\* C29: in every reachable state no ticket is both closed and delayed: a
\* closed ticket has is_delayed = false and delay_started_at = none.
C29_ClosedIsNotDelayed ==
    \A t \in TicketIds :
        tickets[t].status = "closed" =>
            /\ ~tickets[t].is_delayed
            /\ tickets[t].delay_started_at = NoTime
\* C30: right after a successful break start the agent has is_on_break,
\* status on_break, break_started_at set and no active tickets, and exactly
\* one AgentBreakSession row without break_end_time; and in every reachable
\* state an agent is on break if and only if it has exactly one such open
\* session.
C30_BreakOpensSession ==
    LET open_sessions(a) ==
            {i \in 1..Len(breakSessions) :
                /\ breakSessions[i].agent = a
                /\ breakSessions[i].break_end_time = NoTime}
    IN  /\ (last.op = "take_break" /\ last.ok) =>
              /\ agents[last.a].is_on_break
              /\ agents[last.a].status = "on_break"
              /\ agents[last.a].break_started_at # NoTime
              /\ agents[last.a].current_active_tickets = 0
              /\ Cardinality(open_sessions(last.a)) = 1
        /\ \A a \in Agents :
              agents[a].is_on_break <=> Cardinality(open_sessions(a)) = 1
\* C31: every break that ends, by a break end or by a forced logout of an
\* agent on break, appends exactly one AgentBreakSession row for that break
\* (its agent, from break_started_at to now) and adds its whole minutes to
\* total_break_minutes_today; and no request changes or removes a row that
\* exists.
C31_EveryEndedBreakHasSession ==
    [][/\ \A a \in Agents :
            (/\ last'.seq = last.seq + 1
             /\ agents[a].is_on_break
             /\ ~agents'[a].is_on_break) =>
               /\ Len(breakSessions') = Len(breakSessions) + 1
               /\ breakSessions'[Len(breakSessions')].agent = a
               /\ breakSessions'[Len(breakSessions')].break_start_time
                     = agents[a].break_started_at
               /\ breakSessions'[Len(breakSessions')].break_end_time = now
               /\ agents'[a].total_break_minutes_today
                     = agents[a].total_break_minutes_today
                         + (now - agents[a].break_started_at) \div 2
       /\ Len(breakSessions') >= Len(breakSessions)
       /\ SubSeq(breakSessions', 1, Len(breakSessions)) = breakSessions
    ]_vars
\* C32: the drain of a break start or of an API logout never targets the
\* departing agent A: no transfer-log row it appends has from_agent =
\* to_agent, and no ticket it counted as transferred still has
\* current_agent = A afterwards.
C32_DrainNeverTargetsSelf ==
    [][\A A \in Agents :
        (/\ last'.seq = last.seq + 1
         /\ last'.op \in {"take_break", "logout"}
         /\ last'.a = A) =>
           \A i \in (Len(transferLog) + 1)..Len(transferLog') :
              /\ transferLog'[i].from_agent # transferLog'[i].to_agent
              /\ tickets'[transferLog'[i].ticket].current_agent # A
    ]_vars

\* C33: every request that takes agent A offline (API logout, web logout,
\* set_online with false, forced logout, deactivation) leaves A with
\* is_online false, status offline and current_active_tickets 0, and none
\* of A's open tickets stays with A when another agent is eligible with
\* room for all of them.
C33_OfflineEntryPointsDrain ==
    [][\A A \in Agents :
        LET held == OpenTicketsOf(tickets, A) IN
        (/\ last'.seq = last.seq + 1
         /\ last'.a = A
         /\ \/ last'.op \in {"logout", "logout_view", "force_logout",
                             "toggle_status"}
            \/ last'.op = "set_online" /\ last'.ok = FALSE) =>
           /\ ~agents'[A].is_online
           /\ agents'[A].status = "offline"
           /\ agents'[A].current_active_tickets = 0
           /\ (\E B \in Agents \ {A} :
                  /\ AvailableFilter(agents, B)
                  /\ max_capacity[B] - agents[B].current_active_tickets
                        >= Cardinality(held)) =>
                 \A t \in held : tickets'[t].current_agent \in Agents \ {A}
    ]_vars

\* C34: a ticket is created without an agent only when no agent is eligible:
\* every request that creates a ticket (the API or the admin conversation
\* page) while get_available_agent would return an agent gives the new
\* ticket a current_agent.
C34_CreationAssignsWhenEligible ==
    [][(/\ last'.seq = last.seq + 1
        /\ Len(tickets') = Len(tickets) + 1
        /\ None \notin get_available_agent(agents)) =>
          /\ tickets'[Len(tickets')].current_agent \in Agents
          /\ tickets'[Len(tickets')].assigned_agent \in Agents
    ]_vars

\* C35: the classification is set once: a handle_menu_selection on a ticket
\* whose category_selected_at is already set leaves category, priority and
\* category_selected_at unchanged, and an invalid choice never changes them.
C35_ClassificationSetOnce ==
    [][\A t \in TicketIds :
        (/\ last'.seq = last.seq + 1
         /\ last'.op = "menu" /\ last'.t = t
         /\ \/ tickets[t].category_selected_at # NoTime
            \/ ~last'.ok) =>
           /\ tickets'[t].category = tickets[t].category
           /\ tickets'[t].priority = tickets[t].priority
           /\ tickets'[t].category_selected_at = tickets[t].category_selected_at
    ]_vars

\* C39: an automated reply (the welcome message, the reply to a menu
\* choice) changes at most last_message_at of its ticket: on every ticket
\* last_agent_message_at, first_response_at, last_customer_message_at and
\* the delay fields (is_delayed, delay_started_at, delay_count,
\* total_delay_minutes) are unchanged, and no state-log row is written.
C39_AutomatedRepliesAreNotAnswers ==
    [][(/\ last'.seq = last.seq + 1
        /\ last'.op \in {"welcome", "menu"}) =>
          /\ Len(tickets') = Len(tickets)
          /\ \A t \in TicketIds :
                /\ tickets'[t].last_agent_message_at
                      = tickets[t].last_agent_message_at
                /\ tickets'[t].first_response_at = tickets[t].first_response_at
                /\ tickets'[t].response_time_seconds
                      = tickets[t].response_time_seconds
                /\ tickets'[t].last_customer_message_at
                      = tickets[t].last_customer_message_at
                /\ tickets'[t].is_delayed = tickets[t].is_delayed
                /\ tickets'[t].delay_started_at = tickets[t].delay_started_at
                /\ tickets'[t].delay_count = tickets[t].delay_count
                /\ tickets'[t].total_delay_minutes
                      = tickets[t].total_delay_minutes
          /\ stateLog' = stateLog
    ]_vars

\* An automated reply was stored on a ticket that is delayed and not
\* answered: last_message_at is now, after the customer's message, and the
\* delay is still running.
C39_Witness ==
    /\ last.op \in {"welcome", "menu"}
    /\ last.n = 1
    /\ tickets[last.t].last_message_at = now
    /\ tickets[last.t].is_delayed
    /\ tickets[last.t].last_agent_message_at = NoTime
    /\ tickets[last.t].last_customer_message_at # NoTime
    /\ tickets[last.t].last_customer_message_at < now
    /\ messages # <<>>
    /\ messages[Len(messages)].sender_type = "agent"

\* C40: in every reachable state the status agrees with the flags: status
\* is on_break exactly when is_on_break is true, and offline exactly when
\* is_online is false; so no agent is available or busy while on break or
\* offline.
C40_StatusAgreesWithFlags ==
    \A a \in Agents :
        /\ agents[a].status = "on_break" <=> agents[a].is_on_break
        /\ agents[a].status = "offline" <=> ~agents[a].is_online

\* C36: one crossing of the threshold gives one open-to-delayed transition,
\* whatever the number of concurrent re-evaluations: delay_count counts the
\* crossings, and the state log of a ticket never holds more open-to-delayed
\* rows than delay_count.
C36_OneTransitionPerCrossing ==
    \A t \in TicketIds :
        Cardinality({i \in 1..Len(stateLog) :
                        /\ stateLog[i].ticket = t
                        /\ stateLog[i].new_state = "delayed"})
           <= tickets[t].delay_count

\* C37: of the concurrent closes of one ticket exactly one gets past the
\* test of the status: no two workers are closing the same ticket, and the
\* state log never holds two closing rows of one ticket.
C37_OneCloseSucceeds ==
    /\ \A v, w \in Workers :
          (/\ v # w
           /\ workers[v].pc \in {"close_ticket_saved", "close_agent_saved"}
           /\ workers[w].pc \in {"close_ticket_saved", "close_agent_saved"}) =>
             workers[v].t # workers[w].t
    /\ \A t \in TicketIds :
          Cardinality({i \in 1..Len(stateLog) :
                          /\ stateLog[i].ticket = t
                          /\ stateLog[i].new_state = "closed"}) <= 1

\* C38: the save of a delay re-evaluation never writes back an older value
\* of a column that close or transfer writes: status, closed_at and
\* current_agent of every ticket row are after the save what they were
\* before, whatever was interleaved between the load and the save.
C38_ReevaluationKeepsStatusAndAgent ==
    [][(\E w \in Workers : /\ workers[w].pc = "sweep_loaded"
                           /\ workers'[w] # workers[w]) =>
          /\ Len(tickets') = Len(tickets)
          /\ \A t \in TicketIds :
                /\ tickets'[t].status = tickets[t].status
                /\ tickets'[t].closed_at = tickets[t].closed_at
                /\ tickets'[t].current_agent = tickets[t].current_agent
    ]_vars

====
